---- MODULE Spec2Model ----
(***************************************************************************)
(* RequestQueuer (src/src/gemini-service.ts): the per-key queue, its       *)
(* cooperative dispatch loop, the admission check over a usage bucket and  *)
(* the usage record, over the in-memory usage store                        *)
(* (src/src/usage-strategy.ts, RAMUsageStrategy).                          *)
(*                                                                         *)
(* Time is in milliseconds.  One action is one run of JavaScript code      *)
(* between two awaits: a call of add(), or the continuation of the         *)
(* dispatch loop after a timer fired or after execute() settled.           *)
(***************************************************************************)
EXTENDS Integers, Sequences, FiniteSets, TLC

VARIABLES
    opts,         \* QueuerOptions: defaultLimits, modelLimits, fallbackDelayMs
    env,          \* what surrounds the queuer: time zone, clock steps, requests offered
    now,          \* Date.now()
    queue,        \* RequestQueuer.queue
    isProcessing, \* RequestQueuer.isProcessing
    usage,        \* RAMUsageStrategy.map: bucket key -> UsageBucket
    loops,        \* the running invocations of processQueue, each at an await
    execEwma,     \* execEwmaMs as [n, num]: num / 4^(n-1) ms, n = execSamples
    fast,         \* ids of fast-path add() calls whose execute is in flight
    nextId,       \* number of add() calls made so far, plus one
    started,      \* history: the items handed to execute(), in dispatch order
    done,         \* history: the settled add() futures, in settlement order
    lastScan,     \* history: what the most recent scan of the queue saw and chose
    ret,          \* history: the most recent call of a method that returns a value
    queuesByProvider,   \* the server's queuesByProvider: provider -> RequestQueuer[]
    clientsByProvider,  \* the server's clientsByProvider: provider -> LLMService[]
    routed,       \* history: the requests the server has routed, in order
    replaced,     \* the queuers a reload took out of queuesByProvider, with their clients
    pb            \* the PocketBase server the remote usage stores talk to

serverVars == << queuesByProvider, clientsByProvider, routed, replaced, pb >>

vars == << opts, env, now, queue, isProcessing, usage, loops, execEwma, fast,
           nextId, started, done, lastScan, ret, queuesByProvider,
           clientsByProvider, routed, replaced, pb >>

----------------------------------------------------------------------------
(* Bounds of the model *)

MaxAdds == 3        \* add() calls in one behaviour
MaxExecMs == 500    \* longest execute() call
HorizonTicks == 2   \* clock steps of the smallest size taken freely
MonthMs == 200000   \* length of a calendar month in the model
MaxLimits == 2      \* entries of a limit array drawn for a call of getActiveLimits
MaxRecords == 2     \* usage records behind a bucket drawn for a single call
MaxAsks == 3        \* requests the server routes to a queuer
MaxQueuers == 2     \* queuers of one provider
MaxPending == 2     \* queued items drawn for a call of estimateWaitMs
MaxSimSteps == 28   \* passes of estimateWaitMs's loop before it counts as endless
MaxReloads == 1     \* sets of clients a reload builds while earlier ones are referred to
MaxFaults == 1      \* requests the PocketBase server fails
MaxFlushes == 1     \* times the interval timer of one store fires
MaxExpiries == 1    \* times the tokens of the PocketBase server run out
MaxPersists == 4    \* calls of persist() of one store that are at an await

(* Program constants *)

SecondWindowMs == 1000
MinuteWindowMs == 60000
DayWindowMs == 86400000
DefaultExecMs == 500
MaxIdleSleepMs == 5000

NaN == -2000000000          \* the IEEE not-a-number of JavaScript
PosInfinity == 2000000000   \* Number.POSITIVE_INFINITY

NoModel == ""               \* modelName undefined
DefaultKey == "__default__"

----------------------------------------------------------------------------
(* Arithmetic of JavaScript numbers *)

Min2(a, b) == IF a <= b THEN a ELSE b
Max2(a, b) == IF a >= b THEN a ELSE b

\* Math.max(a, b): not-a-number if either argument is
MathMax(a, b) == IF a = NaN \/ b = NaN THEN NaN ELSE Max2(a, b)

\* the element of a one-element set: Only({ F(x) : x \in {e} }) is F(e),
\* with e evaluated once
Only(S) == CHOOSE x \in S : TRUE

SetMax(S) == CHOOSE x \in S : \A y \in S : y <= x
SetMin(S) == CHOOSE x \in S : \A y \in S : x <= y

RECURSIVE Pow4(_)
Pow4(n) == IF n = 0 THEN 1 ELSE 4 * Pow4(n - 1)

----------------------------------------------------------------------------
(* RequestQueuer.startOfNextMonth: new Date(utcYear, utcMonth + 1, 1) is    *)
(* the LOCAL midnight that opens the month after the current UTC month,    *)
(* tz ms east of UTC: the UTC boundary, minus tz.                          *)

startOfNextMonth(t, tz) == ((t \div MonthMs) + 1) * MonthMs - tz

\* makeInitial of the constructor, called by getBucket on a miss
makeInitial(t, tz) ==
    [ secondWindowTimestamps |-> << >>,
      minuteWindowTimestamps |-> << >>,
      dayWindowTimestamps    |-> << >>,
      monthTokenCount        |-> 0,
      monthTokenResetAt      |-> startOfNextMonth(t, tz),
      monthRequestCount      |-> 0,
      monthRequestResetAt    |-> startOfNextMonth(t, tz),
      minuteTokenCount       |-> 0,
      minuteTokenWindowStart |-> t ]

getKey(modelName) == IF modelName = NoModel THEN DefaultKey ELSE modelName

\* RAMUsageStrategy.getBucket: the map after the call (a miss creates the bucket)
getBucket(u, key, t, tz) ==
    IF key \in DOMAIN u THEN u
    ELSE [k \in DOMAIN u \cup {key} |-> IF k = key THEN makeInitial(t, tz) ELSE u[k]]

\* the map u with the bucket of key replaced by b
SetBucket(u, key, b) == [k \in DOMAIN u \cup {key} |-> IF k = key THEN b ELSE u[k]]

----------------------------------------------------------------------------
(* RequestQueuer.getActiveLimits *)

HasType(ls, ty) == \E i \in 1..Len(ls) : ls[i].type = ty

\* Array.prototype.find: the first entry of that type
FindType(ls, ty) == ls[CHOOSE i \in 1..Len(ls) :
                          ls[i].type = ty /\ \A j \in 1..(i - 1) : ls[j].type # ty]

RECURSIVE FilterNotIn(_, _)
FilterNotIn(ls, dl) ==
    IF ls = << >> THEN << >>
    ELSE IF HasType(dl, Head(ls).type) THEN FilterNotIn(Tail(ls), dl)
         ELSE << Head(ls) >> \o FilterNotIn(Tail(ls), dl)

\* << >> stands for both undefined and the empty array: every caller tests
\* (!active || active.length === 0)
getActiveLimits(o, modelName) ==
    LET dl == o.defaultLimits
        ml == o.modelLimits
    IN  IF modelName # NoModel /\ modelName \in DOMAIN ml /\ Len(ml[modelName]) > 0
        THEN [i \in 1..Len(dl) |->
                 IF HasType(ml[modelName], dl[i].type)
                 THEN FindType(ml[modelName], dl[i].type) ELSE dl[i]]
             \o FilterNotIn(ml[modelName], dl)
        ELSE dl

\* Names every JavaScript object inherits from Object.prototype as functions
\* of one or more parameters: ml[name] is that function, truthy and with a
\* .length >= 1, unless modelLimits has a property of that name itself.
InheritedFunctions == {"constructor", "hasOwnProperty"}

\* what a call that throws a TypeError yields
TypeError == [threw |-> "TypeError"]

\* getActiveLimits as a call: ml[modelName] found on the prototype is no
\* array, so modelSpecificLimits.find / .filter is not a function
getActiveLimitsThrows(o, modelName) ==
    modelName \notin DOMAIN o.modelLimits /\ modelName \in InheritedFunctions

getActiveLimitsCall(o, modelName) ==
    IF getActiveLimitsThrows(o, modelName)
    THEN TypeError
    ELSE getActiveLimits(o, modelName)

----------------------------------------------------------------------------
(* Maintenance of a bucket *)

RECURSIVE DropOld(_, _)
DropOld(ts, cutoff) ==
    IF ts # << >> /\ Head(ts) <= cutoff THEN DropOld(Tail(ts), cutoff) ELSE ts

pruneWindows(t, b) ==
    [b EXCEPT !.secondWindowTimestamps = DropOld(@, t - SecondWindowMs),
              !.minuteWindowTimestamps = DropOld(@, t - MinuteWindowMs),
              !.dayWindowTimestamps    = DropOld(@, t - DayWindowMs)]

maybeResetMonthlyTokens(t, b, tz) ==
    IF t >= b.monthTokenResetAt
    THEN [b EXCEPT !.monthTokenCount = 0,
                   !.monthTokenResetAt = startOfNextMonth(t, tz)]
    ELSE b

maybeResetMonthlyRequests(t, b, tz) ==
    IF t >= b.monthRequestResetAt
    THEN [b EXCEPT !.monthRequestCount = 0,
                   !.monthRequestResetAt = startOfNextMonth(t, tz)]
    ELSE b

maybeResetMinuteTokens(t, b) ==
    IF t - b.minuteTokenWindowStart >= MinuteWindowMs
    THEN [b EXCEPT !.minuteTokenCount = 0, !.minuteTokenWindowStart = t]
    ELSE b

\* the four maintenance calls that open computeWaitMs
maintain(t, b, tz) ==
    pruneWindows(t,
        maybeResetMinuteTokens(t,
            maybeResetMonthlyRequests(t,
                maybeResetMonthlyTokens(t, b, tz), tz)))

----------------------------------------------------------------------------
(* RequestQueuer.computeWaitMs, its loop over the active limits, on a      *)
(* maintained bucket                                                       *)

\* 1000 - (now - earliest); earliest is undefined on an empty array
WindowWait(ts, t, len) == IF ts = << >> THEN NaN ELSE len - (t - Head(ts))

tokensAskedNone(tokensNeeded) == 0
tokensAskedAtLeastOne(tokensNeeded) == Max2(1, tokensNeeded)

\* Math.max(0, tokensNeeded)
tokensAsked(tokensNeeded) == Max2(0, tokensNeeded)

limitWait(l, b, t, tokensNeeded) ==
    CASE l.type = "RPS" ->
           IF Len(b.secondWindowTimestamps) >= l.limit
           THEN WindowWait(b.secondWindowTimestamps, t, SecondWindowMs) ELSE 0
      [] l.type = "RPm" ->
           IF Len(b.minuteWindowTimestamps) >= l.limit
           THEN WindowWait(b.minuteWindowTimestamps, t, MinuteWindowMs) ELSE 0
      [] l.type = "RPD" ->
           IF Len(b.dayWindowTimestamps) >= l.limit
           THEN WindowWait(b.dayWindowTimestamps, t, DayWindowMs) ELSE 0
      [] l.type = "TPM" ->
           IF b.monthTokenCount + tokensAsked(tokensNeeded) > l.limit
           THEN b.monthTokenResetAt - t ELSE 0
      [] l.type = "RPM" ->
           IF b.monthRequestCount + 1 > l.limit
           THEN b.monthRequestResetAt - t ELSE 0
      [] l.type = "TPm" ->
           IF t - b.minuteTokenWindowStart >= MinuteWindowMs THEN 0
           ELSE IF b.minuteTokenCount + tokensAsked(tokensNeeded) > l.limit
                THEN b.minuteTokenWindowStart + MinuteWindowMs - t ELSE 0
      [] OTHER -> 0

RECURSIVE foldLimits(_, _, _, _, _)
foldLimits(active, b, t, tokensNeeded, waitMs) ==
    IF active = << >> THEN waitMs
    ELSE foldLimits(Tail(active), b, t, tokensNeeded,
                    MathMax(waitMs, limitWait(Head(active), b, t, tokensNeeded)))

\* the value computeWaitMs returns for a bucket that was just maintained
computeWaitMs(t, active, b, tokensNeeded) ==
    IF active = << >> THEN 0
    ELSE MathMax(0, foldLimits(active, b, t, tokensNeeded, 0))

\* the usage map after computeWaitMs: untouched without active limits
usageAfterWait(u, o, t, tz, modelName) ==
    IF getActiveLimits(o, modelName) = << >> THEN u
    ELSE SetBucket(u, getKey(modelName),
                   maintain(t, getBucket(u, getKey(modelName), t, tz)[getKey(modelName)], tz))

----------------------------------------------------------------------------
(* RequestQueuer.recordUsage *)

\* the bucket after the pushes and the counter updates, before the final prune
pushUsage(b, t, tokens) ==
    [b EXCEPT !.secondWindowTimestamps = Append(@, t),
              !.minuteWindowTimestamps = Append(@, t),
              !.dayWindowTimestamps    = Append(@, t),
              !.monthTokenCount   = IF tokens > 0 THEN @ + tokens ELSE @,
              !.monthRequestCount = @ + 1,
              !.minuteTokenWindowStart =
                  IF t - @ >= MinuteWindowMs THEN t ELSE @,
              !.minuteTokenCount =
                  (IF t - b.minuteTokenWindowStart >= MinuteWindowMs THEN 0 ELSE @)
                  + (IF tokens > 0 THEN tokens ELSE 0)]

recordUsage(u, t, tz, tokens, modelName) ==
    SetBucket(u, getKey(modelName),
              pruneWindows(t,
                  pushUsage(getBucket(u, getKey(modelName), t, tz)[getKey(modelName)],
                            t, tokens)))

usageAfterExecuteAlways(u, ok, t, tz, tokens, modelName) ==
    recordUsage(u, t, tz, tokens, modelName)

\* what the try/catch around execute() does to the usage map
usageAfterExecute(u, ok, t, tz, tokens, modelName) ==
    IF ok THEN recordUsage(u, t, tz, tokens, modelName) ELSE u

rejectValueWrapsAll(error) ==
    [isError |-> TRUE, text |-> error.text, madeBy |-> "queuer"]

\* the value item.reject receives:
\* error instanceof Error ? error : new Error(String(error))
rejectValue(error) ==
    IF error.isError THEN error
    ELSE [isError |-> TRUE, text |-> error.text, madeBy |-> "queuer"]

\* updateExecDuration: execEwmaMs = 0.25 * d + 0.75 * execEwmaMs, kept exact
updateExecDuration(e, durationMs) ==
    IF durationMs < 0 THEN e
    ELSE IF e.n = 0 THEN [n |-> 1, num |-> durationMs]
    ELSE [n |-> e.n + 1, num |-> Pow4(e.n - 1) * durationMs + 3 * e.num]

----------------------------------------------------------------------------
(* RequestQueuer.processQueue: one pass of the while loop, up to its await *)

NoItem == [id |-> 0, tokens |-> 0, modelName |-> NoModel]

RunnableAlways(wait) == TRUE
RunnableStrict(wait) == wait # NaN /\ wait < 0

\* if (wait <= 0): false for not-a-number
Runnable(wait) == wait # NaN /\ wait <= 0

\* the wait computeWaitMs returns for item qi, its bucket in u maintained
itemWait(u, o, t, qi) ==
    IF getActiveLimits(o, qi.modelName) = << >> THEN 0
    ELSE computeWaitMs(t, getActiveLimits(o, qi.modelName),
                       u[getKey(qi.modelName)], qi.tokens)

\* the for loop over the queue from index i on: stops at the first item
\* whose wait is <= 0; every computeWaitMs call maintains that item's bucket
RECURSIVE scanQueue(_, _, _, _, _, _, _)
scanDecideHeadOnly(q, i, u1, minWait, o, t, tz, wait) ==
    IF Runnable(wait) THEN [idx |-> i, minWait |-> minWait, usage |-> u1]
    ELSE [idx |-> 0, minWait |-> IF wait = NaN THEN minWait ELSE wait, usage |-> u1]

scanDecide(q, i, u1, minWait, o, t, tz, wait) ==
    IF Runnable(wait) THEN [idx |-> i, minWait |-> minWait, usage |-> u1]
    ELSE scanQueue(q, i + 1, u1,
                   IF wait # NaN /\ wait < minWait THEN wait ELSE minWait,
                   o, t, tz)

scanItem(q, i, u1, minWait, o, t, tz) ==
    Only({ scanDecide(q, i, u1, minWait, o, t, tz, wait) :
              wait \in {itemWait(u1, o, t, q[i])} })

scanQueue(q, i, u, minWait, o, t, tz) ==
    IF i > Len(q) THEN [idx |-> 0, minWait |-> minWait, usage |-> u]
    ELSE Only({ scanItem(q, i, u1, minWait, o, t, tz) :
                   u1 \in {usageAfterWait(u, o, t, tz, q[i].modelName)} })

\* a sleep of the whole wait
idleSleepUnclamped(minWait) == Max2(1, minWait)

\* Math.max(1, Math.min(minWait, 5_000))
idleSleepMs(minWait) == Max2(1, Min2(minWait, MaxIdleSleepMs))

\* the item read but left in the queue
spliceNothing(q, i) == q

\* queue.shift() in the place of the splice
spliceHead(q, i) == Tail(q)

\* queue.splice(i, 1)
splice(q, i) == [j \in 1..(Len(q) - 1) |-> IF j < i THEN q[j] ELSE q[j + 1]]

\* the usage map cut down to one model's bucket (empty if it has none)
BucketOf(u, modelName) ==
    [k \in DOMAIN u \cap {getKey(modelName)} |-> u[k]]

\* the wait of every queued item as the scan's time and buckets give it
WaitsSeen(q, u, o, t, tz) ==
    [i \in 1..Len(q) |->
        itemWait(usageAfterWait(u, o, t, tz, q[i].modelName), o, t, q[i])]

Local(pc, item, start, wakeAt, before) ==
    [pc |-> pc, item |-> item, start |-> start, wakeAt |-> wakeAt, before |-> before]

\* a loop that returns when no item is runnable
loopBodyReturnsWhenThrottled(q, o, t, tz, s) ==
    IF s.idx = 0
    THEN [queue |-> q, usage |-> s.usage, scanned |-> TRUE, idx |-> 0,
          waits |-> WaitsSeen(q, s.usage, o, t, tz),
          local |-> Local("exit", NoItem, 0, 0, << >>)]
    ELSE [queue |-> splice(q, s.idx), usage |-> s.usage, scanned |-> TRUE,
          idx |-> s.idx,
          waits |-> WaitsSeen(q, s.usage, o, t, tz),
          local |-> Local("exec", q[s.idx], t, 0,
                          BucketOf(s.usage, q[s.idx].modelName))]

\* the loop body after the scan s: sleep, or splice and call execute()
loopBody(q, o, t, tz, s) ==
    IF s.idx = 0
    THEN [queue |-> q, usage |-> s.usage, scanned |-> TRUE, idx |-> 0,
          waits |-> WaitsSeen(q, s.usage, o, t, tz),
          local |-> Local("sleep", NoItem, 0, t + idleSleepMs(s.minWait), << >>)]
    ELSE [queue |-> splice(q, s.idx), usage |-> s.usage, scanned |-> TRUE,
          idx |-> s.idx,
          waits |-> WaitsSeen(q, s.usage, o, t, tz),
          local |-> Local("exec", q[s.idx], t, 0,
                          BucketOf(s.usage, q[s.idx].modelName))]

\* one evaluation of the while condition and, if it holds, of the loop body
\* up to its first await
loopStep(q, u, o, t, tz) ==
    IF Len(q) = 0
    THEN [queue |-> q, usage |-> u, scanned |-> FALSE, idx |-> 0, waits |-> << >>,
          local |-> Local("exit", NoItem, 0, 0, << >>)]
    ELSE Only({ loopBody(q, o, t, tz, s) :
                   s \in {scanQueue(q, 1, u, PosInfinity, o, t, tz)} })

----------------------------------------------------------------------------
(* RequestQueuer.estimateWaitMs: a simulation of the queue, with one       *)
(* hypothetical item at its tail, on a copy of the usage map.  t0 is the   *)
(* time of the call, t the simulation's tCursor.                           *)

\* this.execEwmaMs ?? 500: an average of 0 stays 0
getEstimatedExecMs(e) == IF e.n = 0 THEN DefaultExecMs ELSE e.num \div Pow4(e.n - 1)

\* the monthly resets as the simulation calls them: startOfNextMonth() reads
\* the clock, which stands at t0 whatever tCursor is
maybeResetMonthlyTokensSim(t, b, t0, tz) ==
    IF t >= b.monthTokenResetAt
    THEN [b EXCEPT !.monthTokenCount = 0,
                   !.monthTokenResetAt = startOfNextMonth(t0, tz)]
    ELSE b

maybeResetMonthlyRequestsSim(t, b, t0, tz) ==
    IF t >= b.monthRequestResetAt
    THEN [b EXCEPT !.monthRequestCount = 0,
                   !.monthRequestResetAt = startOfNextMonth(t0, tz)]
    ELSE b

\* the maintenance that opens computeWaitSim: no reset of the minute tokens
maintainSim(t, b, t0, tz) ==
    pruneWindows(t,
        maybeResetMonthlyRequestsSim(t,
            maybeResetMonthlyTokensSim(t, b, t0, tz), t0, tz))

\* usageSim after computeWaitSim(t, modelName): getBucketSim creates the
\* bucket on a miss, with minuteTokenWindowStart = now
usageSimAfterWait(us, o, t, t0, tz, modelName) ==
    IF getActiveLimits(o, modelName) = << >> THEN us
    ELSE SetBucket(us, getKey(modelName),
                   maintainSim(t, getBucket(us, getKey(modelName), t0, tz)[getKey(modelName)],
                               t0, tz))

recordUsageSimNewWindow(us, t, t0, tz, tokens, modelName) ==
    SetBucket(us, getKey(modelName),
              pruneWindows(t,
                  pushUsage([getBucket(us, getKey(modelName), t0, tz)[getKey(modelName)]
                                EXCEPT !.minuteTokenWindowStart = t - MinuteWindowMs],
                            t, tokens)))

\* recordUsageSim(t, tokens, m)
recordUsageSim(us, t, t0, tz, tokens, modelName) ==
    SetBucket(us, getKey(modelName),
              pruneWindows(t,
                  pushUsage(getBucket(us, getKey(modelName), t0, tz)[getKey(modelName)],
                            t, tokens)))

SimItem(modelName, tokens, hypothetical) ==
    [modelName |-> modelName, tokens |-> tokens, hypothetical |-> hypothetical]

\* [...this.queue.map(...), { modelName, tokens: Math.max(0, tokensNeeded),
\*  hypothetical: true }]
simQueueOf(q, modelName, tokensNeeded) ==
    [i \in 1..Len(q) |-> SimItem(q[i].modelName, q[i].tokens, FALSE)]
    \o << SimItem(modelName, Max2(0, tokensNeeded), TRUE) >>

\* the for loop over simQueue from index i on
RECURSIVE simScan(_, _, _, _, _, _, _, _)
simScanDecide(sq, i, us1, minWait, o, t, t0, tz, wait) ==
    IF Runnable(wait) THEN [idx |-> i, minWait |-> minWait, usage |-> us1]
    ELSE simScan(sq, i + 1, us1,
                 IF wait # NaN /\ wait < minWait THEN wait ELSE minWait,
                 o, t, t0, tz)

simScanItem(sq, i, us1, minWait, o, t, t0, tz) ==
    Only({ simScanDecide(sq, i, us1, minWait, o, t, t0, tz, wait) :
              wait \in {itemWait(us1, o, t, sq[i])} })

simScan(sq, i, us, minWait, o, t, t0, tz) ==
    IF i > Len(sq) THEN [idx |-> 0, minWait |-> minWait, usage |-> us]
    ELSE Only({ simScanItem(sq, i, us1, minWait, o, t, t0, tz) :
                   us1 \in {usageSimAfterWait(us, o, t, t0, tz, sq[i].modelName)} })

\* tCursor after a simulated dispatch that leaves `left` items behind
simAfterDispatch(t, o, e, left) ==
    t + Max2(0, getEstimatedExecMs(e))
      + (IF o.fallbackDelayMs # 0 /\ left > 0 THEN o.fallbackDelayMs ELSE 0)

\* The while loop.  It has no bound of its own: after MaxSimSteps passes the
\* call counts as one that does not return.
RECURSIVE simLoop(_, _, _, _, _, _, _, _)
simStep(sq, s, t, fuel, o, t0, tz, e) ==
    IF s.idx = 0 /\ s.minWait = PosInfinity
    THEN \* every wait of the pass was not-a-number: a window that must hold
         \* fewer than 0 or 1 timestamps is empty.  Nothing is recorded, so
         \* it stays empty and every later pass is this one: no return.
         [returns |-> FALSE, stuck |-> TRUE, value |-> 0, usage |-> s.usage]
    ELSE IF s.idx = 0
    THEN simLoop(sq, s.usage, t + idleSleepMs(s.minWait), fuel - 1, o, t0, tz, e)
    ELSE IF sq[s.idx].hypothetical
    THEN [returns |-> TRUE, stuck |-> FALSE, value |-> Max2(0, t - t0),
          usage |-> s.usage]
    ELSE simLoop(splice(sq, s.idx),
                 recordUsageSim(s.usage, t, t0, tz, sq[s.idx].tokens, sq[s.idx].modelName),
                 simAfterDispatch(t, o, e, Len(sq) - 1), fuel - 1, o, t0, tz, e)

simLoop(sq, us, t, fuel, o, t0, tz, e) ==
    IF fuel = 0 THEN [returns |-> FALSE, stuck |-> FALSE, value |-> 0, usage |-> us]
    ELSE Only({ simStep(sq, s, t, fuel, o, t0, tz, e) :
                   s \in {simScan(sq, 1, us, PosInfinity, o, t, t0, tz)} })

estimateWaitMs(o, u, q, t0, tz, e, modelName, tokensNeeded) ==
    IF getActiveLimits(o, modelName) = << >> /\ o.fallbackDelayMs = 0
    THEN [returns |-> TRUE, stuck |-> FALSE, value |-> 0, usage |-> u]
    ELSE simLoop(simQueueOf(q, modelName, tokensNeeded), u, t0, MaxSimSteps,
                 o, t0, tz, e)

usageSimIsTheStore(u, us) == us

\* the usage map after estimateWaitMs: the simulation ran on usageSim, whose
\* buckets and arrays are copies
usageAfterEstimate(u, us) == u

takesFastPathWithoutLimits(o, modelName) == getActiveLimits(o, modelName) = << >>

\* add(): (!activeLimits || activeLimits.length === 0) && !this.opts.fallbackDelayMs
takesFastPath(o, modelName) ==
    getActiveLimits(o, modelName) = << >> /\ o.fallbackDelayMs = 0

processQueueNeverReturns(flag) == FALSE

\* if (this.isProcessing) return;
processQueueReturnsAtOnce(flag) == flag

----------------------------------------------------------------------------
(* The configurations and surroundings the model is run in.                *)
(* env.tz: ms the process's time zone is east of UTC; env.ticks: the steps *)
(* the clock takes; env.kinds: the (modelName, tokens) of the requests     *)
(* offered; env.t0: the time the queuer is constructed; env.horizon: the   *)
(* time up to which the clock steps freely.                                *)

\* what execute() can reject with: an Error, or a value that is none
AnError == [isError |-> TRUE,  text |-> "boom", madeBy |-> "execute"]
NotAnError == [isError |-> FALSE, text |-> "boom", madeBy |-> "execute"]
Result == [isError |-> FALSE, text |-> "ok", madeBy |-> "execute"]

L(ty, n) == [type |-> ty, limit |-> n]
Kind(m, tok) == [modelName |-> m, tokens |-> tok]
NoModelLimits == [m \in {} |-> << >>]

Scenario(dl, ml, delay, tz, ticks, kinds, t0, thrown) ==
    [opts |-> [defaultLimits |-> dl, modelLimits |-> ml, fallbackDelayMs |-> delay],
     env  |-> [tz |-> tz, ticks |-> ticks, kinds |-> kinds, t0 |-> t0,
               thrown |-> thrown,
               horizon |-> t0 + HorizonTicks * SetMin(ticks),
               stop |-> t0 + HorizonTicks * SetMin(ticks)
                           + (MaxAdds + 1) * SetMax(ticks)]]

\* default RPS 1, model "b" overridden to RPS 2 (scenario S2 of the design)
ScnRPS ==
    Scenario(<< L("RPS", 1) >>, [m \in {"b"} |-> << L("RPS", 2) >>], 0,
             0, {500, 1000}, {Kind("a", 0), Kind("b", 0)}, 0, {AnError})

\* tokens per minute and requests per minute on one model
ScnTPm ==
    Scenario(<< L("TPm", 3), L("RPm", 2) >>, NoModelLimits, 0,
             0, {30000, 60000}, {Kind("a", 1), Kind("a", 3)}, 0, {AnError, NotAnError})

\* requests per day
ScnRPD ==
    Scenario(<< L("RPD", 1) >>, NoModelLimits, 0,
             0, {43200000, 86400000}, {Kind("a", 0), Kind(NoModel, 0)}, 0, {AnError})

\* the monthly limits, the queuer built shortly before a month boundary,
\* in UTC and two hours east of it
ScnMonth(tz) ==
    Scenario(<< L("RPM", 1), L("TPM", 2) >>, NoModelLimits, 0,
             tz, {500, MonthMs}, {Kind("a", 1), Kind("a", 2)}, MonthMs - 500, {AnError})

\* no limits, a fallback delay only
ScnDelay ==
    Scenario(<< >>, NoModelLimits, 1000,
             0, {500, 1000}, {Kind("a", 0), Kind(NoModel, 1)}, 0, {AnError})

\* limits on model "a" only and no fallback delay: "b" takes the fast path
ScnFast ==
    Scenario(<< >>, [m \in {"a"} |-> << L("RPS", 1) >>], 0,
             0, {500, 1000}, {Kind("a", 0), Kind("b", 0)}, 0, {NotAnError})

\* a limit of 0, and a request that asks for more tokens than the limit
ScnZero ==
    Scenario(<< L("RPS", 0) >>, [m \in {"b"} |-> << L("RPS", 1), L("TPm", 1) >>], 0,
             0, {1000}, {Kind("a", 0), Kind("b", 0), Kind("b", 2)}, 0, {AnError})

\* a usage store without buckets
NoUsage == [k \in {} |-> makeInitial(0, 0)]

\* no call observed yet
NoCall == [op |-> "none"]

\* const queuesByProvider = {}, const clientsByProvider = {}
NoProviders == [p \in {} |-> << >>]

\* a PocketBase server whose usage collection holds the given records
\* (record n has id n).  The tokens it gives out run out together: the
\* token it gives out, and the only one it accepts, is the number epoch.
\* faults is the number of requests it is yet to fail, expiries the number
\* of times its tokens are yet to run out.
PocketBase(records, faults, expiries) ==
    [records |-> records, epoch |-> 1, faults |-> faults, expiries |-> expiries]

\* the server as long as no store talks to it (USAGE_STRATEGY is RAM)
NoPocketBase == PocketBase(<< >>, 0, 0)

\* no request handled yet
NoRequest == [n |-> 0, outcome |-> "none"]

NoScan == [at |-> 0, ids |-> << >>, models |-> << >>, waits |-> << >>, idx |-> 0,
           pick |-> 0]

InitOf(scn) ==
    /\ opts = scn.opts
    /\ env = scn.env
    /\ now = scn.env.t0
    /\ queue = << >>
    /\ isProcessing = FALSE
    /\ usage = NoUsage
    /\ loops = << >>
    /\ execEwma = [n |-> 0, num |-> 0]
    /\ fast = {}
    /\ nextId = 1
    /\ started = << >>
    /\ done = << >>
    /\ lastScan = NoScan
    /\ ret = NoCall
    /\ queuesByProvider = NoProviders
    /\ clientsByProvider = NoProviders
    /\ routed = NoRequest
    /\ replaced = << >>
    /\ pb = NoPocketBase

Init ==
    \/ InitOf(ScnRPS)
    \/ InitOf(ScnTPm)
    \/ InitOf(ScnRPD)
    \/ InitOf(ScnMonth(0))
    \/ InitOf(ScnMonth(7200))
    \/ InitOf(ScnDelay)
    \/ InitOf(ScnFast)
    \/ InitOf(ScnZero)

----------------------------------------------------------------------------
(* Actions *)

RemoveAt(s, k) == [j \in 1..(Len(s) - 1) |-> IF j < k THEN s[j] ELSE s[j + 1]]

\* The dispatch loop instance k (0: a new one) goes on from the top of its
\* while loop with queue q and usage u, up to its next await or its exit.
ResumeWith(k, q, r) ==
        /\ queue' = r.queue
        /\ usage' = r.usage
        /\ lastScan' = IF r.scanned
                       THEN [at |-> now, ids |-> [i \in 1..Len(q) |-> q[i].id],
                             models |-> [i \in 1..Len(q) |-> q[i].modelName],
                             waits |-> r.waits, idx |-> r.idx,
                             pick |-> r.local.item.id]
                       ELSE lastScan
        /\ started' = IF r.local.pc = "exec"
                      THEN Append(started, [id |-> r.local.item.id,
                                            modelName |-> r.local.item.modelName,
                                            tokens |-> r.local.item.tokens,
                                            wait |-> r.waits[r.idx],
                                            at |-> now])
                      ELSE started
        /\ loops' = IF r.local.pc = "exit"
                    THEN (IF k = 0 THEN loops ELSE RemoveAt(loops, k))
                    ELSE (IF k = 0 THEN Append(loops, r.local)
                          ELSE [loops EXCEPT ![k] = r.local])
        /\ isProcessing' = (r.local.pc # "exit")

Resume(k, q, u) ==
    \E r \in {loopStep(q, u, opts, now, env.tz)} : ResumeWith(k, q, r)

\* add(executeFunction, tokenEstimateText, modelName); tokens is what the
\* token estimator makes of the text (0 also when no text is given)
Add(modelName, tokens) ==
    /\ nextId <= MaxAdds
    /\ nextId' = nextId + 1
    /\ LET item == [id |-> nextId, tokens |-> tokens, modelName |-> modelName]
       IN  IF takesFastPath(opts, modelName)
           THEN \* return executeFunction()
                /\ fast' = fast \cup {nextId}
                /\ UNCHANGED << queue, isProcessing, usage, loops, started, lastScan >>
           ELSE /\ fast' = fast
                /\ IF processQueueReturnsAtOnce(isProcessing)
                   THEN /\ queue' = Append(queue, item)
                        /\ UNCHANGED << isProcessing, usage, loops, started, lastScan >>
                   ELSE Resume(0, Append(queue, item), usage)
    /\ UNCHANGED << ret, serverVars, opts, env, now, execEwma, done >>

\* the execute() of a fast-path call settles: add()'s future is that promise
FastSettle(id, ok, v) ==
    /\ id \in fast
    /\ fast' = fast \ {id}
    /\ done' = Append(done, [id |-> id, ok |-> ok, thrown |-> v, value |-> v,
                             at |-> now, fastPath |-> TRUE, modelName |-> NoModel,
                             tokens |-> 0, before |-> << >>, pre |-> << >>,
                             pushed |-> << >>,
                             after |-> << >>])
    /\ UNCHANGED << ret, serverVars, opts, env, now, queue, isProcessing, usage, loops, execEwma,
                    nextId, started, lastScan >>

\* the entry of the history for the item of loop instance me, settled at t:
\* u0 the usage map when execute() settled, u1 the map once the outcome is
\* handled, ub the item's bucket as recordUsage finds it
DoneEntry(me, ok, v, t, u0, u1, ub) ==
    [id |-> me.item.id, ok |-> ok, thrown |-> v,
     pre |-> BucketOf(u0, me.item.modelName),
     value |-> IF ok THEN v ELSE rejectValue(v),
     at |-> t, fastPath |-> FALSE, modelName |-> me.item.modelName,
     tokens |-> me.item.tokens, before |-> me.before,
     pushed |-> IF ok THEN pushUsage(ub, t, me.item.tokens) ELSE << >>,
     after |-> BucketOf(u1, me.item.modelName)]

\* the end of a loop pass: the fallback delay, or the next pass at once
AfterSettle(k, u1) ==
    IF opts.fallbackDelayMs # 0 /\ Len(queue) > 0
    THEN /\ loops' = [loops EXCEPT ![k] =
                        Local("delay", NoItem, 0, now + opts.fallbackDelayMs, << >>)]
         /\ usage' = u1
         /\ UNCHANGED << queue, isProcessing, started, lastScan >>
    ELSE Resume(k, queue, u1)

Settle(k, ok, v, u1) ==
    /\ done' = Append(done,
                  DoneEntry(loops[k], ok, v, now, usage, u1,
                            getBucket(usage, getKey(loops[k].item.modelName), now,
                                      env.tz)[getKey(loops[k].item.modelName)]))
    /\ execEwma' = updateExecDuration(execEwma, now - loops[k].start)

\* what an exception leaving processQueue would do: only the outer finally runs
LoopEscapes(k, u1) ==
    /\ loops' = RemoveAt(loops, k)
    /\ isProcessing' = FALSE
    /\ usage' = u1
    /\ UNCHANGED << queue, started, lastScan >>

AfterExecuteUncaught(k, ok, v, u1) ==
    /\ Settle(k, ok, v, u1)
    /\ IF ok THEN AfterSettle(k, u1) ELSE LoopEscapes(k, u1)

\* try { await execute(); resolve; recordUsage } finally { updateExecDuration }
\* catch { reject }, then the fallback delay or the next pass
AfterExecuteWith(k, ok, v, u1) ==
    /\ Settle(k, ok, v, u1)
    /\ AfterSettle(k, u1)

AfterExecute(k, ok, v) ==
    /\ k \in 1..Len(loops)
    /\ loops[k].pc = "exec"
    /\ \E u1 \in {usageAfterExecute(usage, ok, now, env.tz, loops[k].item.tokens,
                                     loops[k].item.modelName)} :
          AfterExecuteWith(k, ok, v, u1)
    /\ UNCHANGED << ret, serverVars, opts, env, now, fast, nextId >>

ExecResolve(k) == AfterExecute(k, TRUE, Result)

ExecReject(k, v) == AfterExecute(k, FALSE, v)

\* the timer of the idle sleep fires: continue
SleepDone(k) ==
    /\ k \in 1..Len(loops)
    /\ loops[k].pc = "sleep"
    /\ now >= loops[k].wakeAt
    /\ Resume(k, queue, usage)
    /\ UNCHANGED << ret, serverVars, opts, env, now, execEwma, fast, nextId, done >>

\* the timer of the fallback delay fires: next pass
DelayDone(k) ==
    /\ k \in 1..Len(loops)
    /\ loops[k].pc = "delay"
    /\ now >= loops[k].wakeAt
    /\ Resume(k, queue, usage)
    /\ UNCHANGED << ret, serverVars, opts, env, now, execEwma, fast, nextId, done >>

\* getUsageSnapshot(): every bucket of the store is maintained at the
\* current time before it is read
GetUsageSnapshot ==
    /\ usage' = [k \in DOMAIN usage |-> maintain(now, usage[k], env.tz)]
    /\ usage' # usage
    /\ UNCHANGED << ret, serverVars, opts, env, now, queue, isProcessing, loops, execEwma, fast,
                    nextId, started, done, lastScan >>

TimerPending ==
    \E k \in 1..Len(loops) : loops[k].pc \in {"sleep", "delay"} /\ now < loops[k].wakeAt

\* The clock moves on by d.  Past the horizon it moves only for a timer that
\* is not yet due, in its largest step, up to env.stop; an execute() lasts at most MaxExecMs.
Tick(d) ==
    /\ d \in env.ticks
    /\ \/ now + d <= env.horizon
       \/ TimerPending /\ d = SetMax(env.ticks) /\ now + d <= env.stop
    /\ \A k \in 1..Len(loops) :
          loops[k].pc = "exec" => now + d - loops[k].start <= MaxExecMs
    /\ now' = now + d
    /\ UNCHANGED << ret, serverVars, opts, env, queue, isProcessing, usage, loops, execEwma, fast,
                    nextId, started, done, lastScan >>

Next ==
    \/ \E kind \in env.kinds : Add(kind.modelName, kind.tokens)
    \/ \E id \in fast : FastSettle(id, TRUE, Result)
    \/ \E id \in fast, v \in env.thrown : FastSettle(id, FALSE, v)
    \/ \E k \in 1..Len(loops) : ExecResolve(k)
    \/ \E k \in 1..Len(loops), v \in env.thrown : ExecReject(k, v)
    \/ \E k \in 1..Len(loops) : SleepDone(k)
    \/ \E k \in 1..Len(loops) : DelayDone(k)
    \/ GetUsageSnapshot
    \/ \E d \in env.ticks : Tick(d)

Spec == Init /\ [][Next]_vars

\* the same queuer in processes whose time zone is UTC
InitUTC == Init /\ env.tz = 0

SpecUTC == InitUTC /\ [][Next]_vars

\* Configurations in which every limit is at least 1 and no request asks for
\* more tokens than a token limit allows
InitLive ==
    \/ InitOf(ScnRPS)
    \/ InitOf(ScnTPm)
    \/ InitOf(ScnRPD)
    \/ InitOf(ScnMonth(0))
    \/ InitOf(ScnDelay)
    \/ InitOf(ScnFast)

\* the steps that need no new call from outside: an execute() settles, a
\* timer fires, the clock moves on
Progress ==
    \/ \E k \in 1..Len(loops) : ExecResolve(k)
    \/ \E k \in 1..Len(loops), v \in env.thrown : ExecReject(k, v)
    \/ \E id \in fast : FastSettle(id, TRUE, Result)
    \/ \E k \in 1..Len(loops) : SleepDone(k)
    \/ \E k \in 1..Len(loops) : DelayDone(k)
    \/ \E d \in env.ticks : Tick(d)

\* Every execute() call settles, every timer that is due fires, and the clock
\* moves on while it may: the clock of the model stops at env.stop, so a
\* step other than a clock step is taken whenever one stays possible.
Fairness == WF_vars(Progress)

SpecLive == InitLive /\ [][Next]_vars /\ Fairness

----------------------------------------------------------------------------
(* Single calls of the queuer's methods on inputs drawn from bounded sets *)

LimitTypes == {"RPS", "RPm", "RPD", "TPM", "RPM", "TPm"}

RECURSIVE SeqsUpTo(_, _)
\* the sequences over S of length at most n
SeqsUpTo(S, n) ==
    IF n = 0 THEN {<< >>}
    ELSE SeqsUpTo(S, n - 1)
         \cup { Append(q, x) : q \in { r \in SeqsUpTo(S, n - 1) : Len(r) = n - 1 }, x \in S }

\* the limit arrays for the calls of getActiveLimits
MergeLimitLists ==
    SeqsUpTo({ L(ty, n) : ty \in {"RPS", "TPm"}, n \in {1, 2} }, MaxLimits)

\* the surroundings of a series of calls of the methods named in calls that
\* starts at t0: the clock steps by the ticks up to horizon
CallEnv(calls, ticks, kinds, t0, horizon) ==
    [tz |-> 0, ticks |-> ticks, kinds |-> kinds, t0 |-> t0, thrown |-> {AnError},
     horizon |-> horizon, stop |-> horizon, calls |-> calls]

\* A queuer with options o at time e.t0 whose store holds u, whose queue
\* holds q and whose latency average is ew; with a queue that is not empty
\* its dispatch loop is awaiting the execute() of an item taken earlier.
InitWith(o, e, u, q, ew) ==
    /\ opts = o
    /\ env = e
    /\ now = e.t0
    /\ queue = q
    /\ isProcessing = (q # << >>)
    /\ usage = u
    /\ loops = IF q = << >> THEN << >>
               ELSE << Local("exec", [id |-> 1, tokens |-> 0, modelName |-> q[1].modelName],
                             e.t0, 0, << >>) >>
    /\ execEwma = ew
    /\ fast = {}
    /\ nextId = Len(q) + 2
    /\ started = << >>
    /\ done = << >>
    /\ lastScan = NoScan
    /\ ret = NoCall
    /\ queuesByProvider = NoProviders
    /\ clientsByProvider = NoProviders
    /\ routed = NoRequest
    /\ replaced = << >>
    /\ pb = NoPocketBase

MergeKinds == {Kind("a", 0), Kind("b", 0), Kind("constructor", 0), Kind(NoModel, 0)}

\* options for getActiveLimits: any default array, and for model "a" none or
\* any array (the empty one included)
InitMergeCalls ==
    \E dl \in MergeLimitLists :
       \/ InitWith([defaultLimits |-> dl, modelLimits |-> NoModelLimits,
                    fallbackDelayMs |-> 0],
                   CallEnv({"getActiveLimits"}, {1000}, MergeKinds, 0, 0), NoUsage, << >>,
                   [n |-> 0, num |-> 0])
       \/ \E ml \in MergeLimitLists :
             InitWith([defaultLimits |-> dl, modelLimits |-> [m \in {"a"} |-> ml],
                       fallbackDelayMs |-> 0],
                      CallEnv({"getActiveLimits"}, {1000}, MergeKinds, 0, 0), NoUsage, << >>,
                      [n |-> 0, num |-> 0])

\* getConfiguredLimits(modelName): return this.getActiveLimits(modelName)
CallGetActiveLimits(modelName) ==
    /\ "getActiveLimits" \in env.calls
    /\ ret' = [op |-> "getActiveLimits", modelName |-> modelName,
               value |-> getActiveLimitsCall(opts, modelName)]
    /\ UNCHANGED << serverVars, opts, env, now, queue, isProcessing, usage, loops,
                    execEwma, fast, nextId, started, done, lastScan >>

\* The calls of computeWaitMs: a family of limit types with the clock steps
\* that cross its windows
WaitFamily(types, ticks, t0, horizon) ==
    [types |-> types, ticks |-> ticks, t0 |-> t0, horizon |-> horizon]

WaitFamilies ==
    { WaitFamily(<< "RPS", "RPm", "TPm" >>, {500}, 0, 1000),
      WaitFamily(<< "RPS", "RPm", "TPm" >>, {30000}, 0, 60000),
      WaitFamily(<< "TPM", "RPM", "TPm" >>, {500}, MonthMs - 500, MonthMs + 500),
      WaitFamily(<< "RPD", "RPM", "TPM" >>, {43200000}, 0, 86400000) }

RECURSIVE LimitsOf(_, _, _, _)
\* the array of the limits n[i] of the types i in keep, from index i on
LimitsOf(types, n, keep, i) ==
    IF i > Len(types) THEN << >>
    ELSE (IF i \in keep THEN << L(types[i], n[i]) >> ELSE << >>)
         \o LimitsOf(types, n, keep, i + 1)

\* the limit arrays over the given types in which each type is absent or has
\* a limit of -1, 0 or 2: normalizeLimits keeps every finite number
LimitChoices(types) ==
    { LimitsOf(types, n, keep, 1) :
         n \in [1..Len(types) -> {-1, 0, 2}], keep \in SUBSET (1..Len(types)) }

WaitKinds == {Kind("a", 0), Kind("a", 2)}

\* default limits of the family's types, on an empty store
InitWaitCalls ==
    \E f \in WaitFamilies :
       \E dl \in LimitChoices(f.types) :
          InitWith([defaultLimits |-> dl, modelLimits |-> NoModelLimits,
                    fallbackDelayMs |-> 0],
                   CallEnv({"getActiveLimits", "computeWaitMs"}, f.ticks, WaitKinds, f.t0, f.horizon), NoUsage, << >>,
                   [n |-> 0, num |-> 0])

\* computeWaitMs(now, modelName, tokensNeeded): the value returned with the
\* limits and the maintained bucket it was computed from
CallComputeWaitMs(modelName, tokensNeeded) ==
    /\ "computeWaitMs" \in env.calls
    /\ \E u1 \in {usageAfterWait(usage, opts, now, env.tz, modelName)} :
          /\ usage' = u1
          /\ ret' = [op |-> "computeWaitMs", modelName |-> modelName,
                     tokens |-> tokensNeeded, at |-> now,
                     active |-> getActiveLimits(opts, modelName),
                     bucket |-> BucketOf(u1, modelName),
                     value |-> itemWait(u1, opts, now,
                                        [id |-> 0, tokens |-> tokensNeeded,
                                         modelName |-> modelName])]
    /\ UNCHANGED << serverVars, opts, env, now, queue, isProcessing, loops,
                    execEwma, fast, nextId, started, done, lastScan >>

\* recordUsage(now, tokens, modelName), called as processQueue calls it: for
\* the request that computeWaitMs last found runnable
CallRecordUsage(modelName, tokens) ==
    /\ ret.op = "computeWaitMs"
    /\ ret.modelName = modelName
    /\ ret.tokens = tokens
    /\ Runnable(ret.value)
    /\ \A k \in DOMAIN usage : Len(usage[k].dayWindowTimestamps) < MaxRecords
    /\ usage' = recordUsage(usage, now, env.tz, tokens, modelName)
    /\ ret' = [op |-> "recordUsage", modelName |-> modelName, tokens |-> tokens,
               at |-> now]
    /\ UNCHANGED << serverVars, opts, env, now, queue, isProcessing, loops,
                    execEwma, fast, nextId, started, done, lastScan >>

\* The calls of estimateWaitMs.  A usage record made at `at` for a request
\* of a kind:
UsageRecord(at, kind) == [at |-> at, modelName |-> kind.modelName, tokens |-> kind.tokens]

\* The usage map after the dispatches recs, each checked by computeWaitMs and
\* recorded by recordUsage at its time; ok tells whether every check let its
\* request run.
RECURSIVE replayRecords(_, _, _, _)
replayChecked(o, tz, recs, u1) ==
    IF Runnable(itemWait(u1, o, Head(recs).at, Head(recs)))
    THEN replayRecords(o, tz, Tail(recs),
                       recordUsage(u1, Head(recs).at, tz, Head(recs).tokens,
                                   Head(recs).modelName))
    ELSE [ok |-> FALSE, usage |-> u1]

replayRecords(o, tz, recs, u) ==
    IF recs = << >> THEN [ok |-> TRUE, usage |-> u]
    ELSE Only({ replayChecked(o, tz, recs, u1) :
                   u1 \in {usageAfterWait(u, o, Head(recs).at, tz, Head(recs).modelName)} })

EstimateKinds == {Kind("a", 0), Kind("a", 2), Kind("b", 0)}

\* the options of the queuers whose waits are estimated, each with the time
\* its first dispatch was made
EstimateSeries ==
    { [opts |-> [defaultLimits |-> << L("RPS", 1) >>,
                 modelLimits |-> [m \in {"b"} |-> << L("RPS", 2) >>],
                 fallbackDelayMs |-> 0], base |-> 0],
      [opts |-> [defaultLimits |-> << L("TPm", 2), L("RPm", 2) >>,
                 modelLimits |-> NoModelLimits, fallbackDelayMs |-> 0], base |-> 0],
      [opts |-> [defaultLimits |-> << >>, modelLimits |-> NoModelLimits,
                 fallbackDelayMs |-> 1000], base |-> 0],
      [opts |-> [defaultLimits |-> << >>,
                 modelLimits |-> [m \in {"a"} |-> << L("TPm", 2) >>],
                 fallbackDelayMs |-> 0], base |-> 0],
      [opts |-> [defaultLimits |-> << L("TPM", 2), L("RPM", 2) >>,
                 modelLimits |-> NoModelLimits, fallbackDelayMs |-> 0],
       base |-> MonthMs - 1000],
      [opts |-> [defaultLimits |-> << L("RPS", 0) >>,
                 modelLimits |-> [m \in {"b"} |-> << L("TPM", 1), L("RPS", 1) >>],
                 fallbackDelayMs |-> 0], base |-> 0] }

\* the pending items: any kinds, numbered from 2 on (item 1 is in flight)
PendingQueues ==
    { [i \in 1..Len(ks) |-> [id |-> i + 1, tokens |-> ks[i].tokens,
                              modelName |-> ks[i].modelName]] :
         ks \in SeqsUpTo(EstimateKinds, MaxPending) }

\* the dispatches made before the call, one after the other
RecordLists(base) ==
    { recs \in SeqsUpTo({ UsageRecord(at, kind) :
                             at \in {base, base + 500}, kind \in EstimateKinds },
                        MaxRecords) :
         \A i \in 1..(Len(recs) - 1) : recs[i].at < recs[i + 1].at }

\* a queuer that made some dispatches, holds some pending items, has measured
\* no execute() yet or one of 0 ms, and is asked for an estimate half a
\* second after its first dispatch or shortly before the minute is over
InitEstimateCalls ==
    \E sr \in EstimateSeries, q \in PendingQueues,
       ew \in {[n |-> 0, num |-> 0], [n |-> 1, num |-> 0]} :
       \E recs \in RecordLists(sr.base), t0 \in {sr.base + 500, sr.base + 59500} :
          \E h \in {replayRecords(sr.opts, 0, recs, NoUsage)} :
             /\ h.ok
             /\ InitWith(sr.opts,
                         CallEnv({"estimateWaitMs"}, {500}, EstimateKinds, t0, t0),
                         h.usage, q, ew)

\* a call of estimateWaitMs that never returns stops the process
Hung == ret.op = "estimateWaitMs" /\ ~ret.returns

\* estimateWaitMs(modelName, tokensNeeded)
CallEstimateWaitMs(modelName, tokensNeeded) ==
    /\ "estimateWaitMs" \in env.calls
    /\ ~Hung
    /\ \E r \in {estimateWaitMs(opts, usage, queue, now, env.tz, execEwma,
                                 modelName, tokensNeeded)} :
          /\ ret' = [op |-> "estimateWaitMs", modelName |-> modelName,
                     tokens |-> tokensNeeded, at |-> now,
                     returns |-> r.returns, stuck |-> r.stuck,
                     value |-> r.value]
          /\ usage' = usageAfterEstimate(usage, r.usage)
    /\ UNCHANGED << serverVars, opts, env, now, queue, isProcessing, loops,
                    execEwma, fast, nextId, started, done, lastScan >>

\* computeWaitSim(t, modelName, tokensNeeded) as a call of estimateWaitMs made
\* now evaluates it on its copy of the usage map at tCursor = now + ahead,
\* with computeWaitMs(t, modelName, tokensNeeded) on a second copy of the
\* same map (the bucket made on a miss included)
CallComputeWaitSim(modelName, tokensNeeded, ahead) ==
    /\ env.calls \cap {"computeWaitMs", "estimateWaitMs"} # {}
    /\ getActiveLimits(opts, modelName) # << >>
    /\ \E us \in {getBucket(usage, getKey(modelName), now, env.tz)} :
          ret' = [op |-> "computeWaitSim", modelName |-> modelName,
                  tokens |-> tokensNeeded, at |-> now, t |-> now + ahead,
                  active |-> getActiveLimits(opts, modelName),
                  bucket |-> us[getKey(modelName)],
                  sim |-> itemWait(usageSimAfterWait(us, opts, now + ahead, now,
                                                     env.tz, modelName),
                                   opts, now + ahead,
                                   [id |-> 0, tokens |-> tokensNeeded,
                                    modelName |-> modelName]),
                  live |-> itemWait(usageAfterWait(us, opts, now + ahead, env.tz,
                                                   modelName),
                                    opts, now + ahead,
                                    [id |-> 0, tokens |-> tokensNeeded,
                                     modelName |-> modelName])]
    /\ UNCHANGED << serverVars, opts, env, now, queue, isProcessing, usage, loops,
                    execEwma, fast, nextId, started, done, lastScan >>

InitCalls ==
    \/ InitMergeCalls
    \/ InitWaitCalls
    \/ InitEstimateCalls

NextCalls ==
    \/ \E kind \in env.kinds : CallGetActiveLimits(kind.modelName)
    \/ \E kind \in env.kinds : CallComputeWaitMs(kind.modelName, kind.tokens)
    \/ \E kind \in env.kinds : CallRecordUsage(kind.modelName, kind.tokens)
    \/ \E kind \in env.kinds : CallEstimateWaitMs(kind.modelName, kind.tokens)
    \/ \E kind \in env.kinds, ahead \in {0} \cup env.ticks :
          CallComputeWaitSim(kind.modelName, kind.tokens, ahead)
    \/ \E d \in env.ticks : Tick(d)

SpecCalls == InitCalls /\ [][NextCalls]_vars

----------------------------------------------------------------------------
(* pocketbaseUsageStrategy (src/src/usage-strategy.ts): the usage store that *)
(* keeps its buckets in a record collection of a PocketBase server.  A     *)
(* store is a record of the object's fields.  Its map is held under the    *)
(* model keys: every key of the map is makeKey of a model key (getBucket   *)
(* and setBucket make it so, bootstrap loads no other key when a label is  *)
(* set, and without a label the two coincide), so the bucket of map key k  *)
(* is usage[plainKey(label, k)].  changed is the Set in insertion order.   *)
(* auth is the cached token, 0 for null.  boot is where bootstrap() is;    *)
(* persists are the calls of persist() that are at an await.  flushes      *)
(* counts the calls of persist() the interval timer made, refused is the   *)
(* token a request of the store was last refused for.                      *)

NoLabel == ""

\* k.startsWith(prefix)
startsWith(k, prefix) ==
    Len(k) >= Len(prefix) /\ (prefix = "" \/ SubSeq(k, 1, Len(prefix)) = prefix)

\* k.slice(n)
slice(k, n) == IF n >= Len(k) THEN "" ELSE SubSeq(k, n + 1, Len(k))

\* this.label ? `${this.label}::${modelKey}` : modelKey
makeKey(label, modelKey) ==
    IF label # NoLabel THEN label \o "::" \o modelKey ELSE modelKey

\* entries(): the map key without the label prefix
plainKey(label, k) ==
    IF label # NoLabel /\ startsWith(k, label \o "::")
    THEN slice(k, Len(label) + 2)
    ELSE k

\* the store of a queuer built with usageStrategy "RAM"
RAMStore == [kind |-> "RAM"]

\* Set.add
setAdd(c, k) == IF \E n \in 1..Len(c) : c[n] = k THEN c ELSE Append(c, k)

RECURSIVE setAddAll(_, _)
setAddAll(c, ks) == IF ks = << >> THEN c ELSE setAddAll(setAdd(c, Head(ks)), Tail(ks))

\* a set of strings as a sequence, in some fixed order
RECURSIVE SeqOfSet(_)
SeqOfSet(S) ==
    IF S = {} THEN << >>
    ELSE Only({ << x >> \o SeqOfSet(S \ {x}) : x \in {CHOOSE y \in S : TRUE} })

\* the constructor: bootstrap() is at the await of its authentication
\* request, and the interval timer is set (autoIntervalMs is 15 s)
newPocketbaseStore(label) ==
    [kind |-> "pocketbase", label |-> label, recordIds |-> [k \in {} |-> 0],
     changed |-> << >>, auth |-> 0, disposed |-> FALSE, timer |-> TRUE,
     boot |-> "auth", persists |-> << >>, flushes |-> 0, refused |-> 0]

\* dispose(): disposed = true, clearInterval(timer)
dispose(st) == [st EXCEPT !.disposed = TRUE, !.timer = FALSE]

\* getBucket on a miss: changed.add(key), for the model keys the handler
\* created buckets of (u0 the buckets before, u1 after)
noteCreated(st, u0, u1) ==
    IF st.kind = "RAM" THEN st
    ELSE [st EXCEPT !.changed =
             setAddAll(@, SeqOfSet({ makeKey(st.label, mk) :
                                        mk \in DOMAIN u1 \ DOMAIN u0 }))]

\* recordUsage changes the bucket getBucket returned in place; it does not
\* call setBucket, so changed stays as it is
noteRecorded(st, modelName) == st

\* the request persist() sends for the first of keys: PATCH of the known
\* record, or createRecord's POST; the body is made when the request is sent.
\* stale: bootstrap has put another bucket object under the key since, and
\* held is the last content of the object this call of persist() holds.
persistRequest(st, u, keys, token) ==
    IF Head(keys) \in DOMAIN st.recordIds
    THEN [pc |-> "patch", keys |-> keys, token |-> token,
          id |-> st.recordIds[Head(keys)],
          body |-> u[plainKey(st.label, Head(keys))], stale |-> FALSE,
          held |-> u[plainKey(st.label, Head(keys))]]
    ELSE [pc |-> "create", keys |-> keys, token |-> token, id |-> 0,
          body |-> u[plainKey(st.label, Head(keys))], stale |-> FALSE,
          held |-> u[plainKey(st.label, Head(keys))]]

\* the for loop of persist() from the first of keys on, up to its await
persistLoop(st, u, keys, token) ==
    IF keys = << >> THEN st
    ELSE [st EXCEPT !.persists = Append(@, persistRequest(st, u, keys, token))]

\* persist() past `await this.ensureAuth()`: the headers with the cached
\* token, toPersist = Array.from(changed), changed.clear(), the loop
persistAuthed(st, u) ==
    persistLoop([st EXCEPT !.changed = << >>], u, st.changed, st.auth)

\* if (this.auth?.token) return
ensureAuth(st) == st.auth # 0

\* if (this.disposed) return
persistReturnsAtOnce(st) == st.disposed

\* a call of persist(), up to its first request: with a cached token
\* ensureAuth returns at once and the continuation runs before any other
\* task; without one it sends the authentication request
persist(st, u) ==
    IF st.kind = "RAM" \/ persistReturnsAtOnce(st) THEN st
    ELSE IF ensureAuth(st) THEN persistAuthed(st, u)
    ELSE [st EXCEPT !.persists =
             Append(@, [pc |-> "auth", keys |-> << >>, token |-> 0, id |-> 0,
                        body |-> makeInitial(0, 0), stale |-> FALSE,
                        held |-> makeInitial(0, 0)])]

RECURSIVE persistTimes(_, _, _)
persistTimes(st, u, n) ==
    IF n = 0 THEN st ELSE persistTimes(persist(st, u), u, n - 1)

\* parseBucket(data): Number(x) || Date.now() for the reset-at values and
\* the window start, Number(x) || 0 for the counts
parseBucket(data, t) ==
    [data EXCEPT !.monthTokenResetAt = IF @ = 0 THEN t ELSE @,
                 !.monthRequestResetAt = IF @ = 0 THEN t ELSE @,
                 !.minuteTokenWindowStart = IF @ = 0 THEN t ELSE @]

\* the calls of persist() that await the answer to a PATCH for key keep the
\* bucket object that map.set(key, ...) of bootstrap() replaces
heldObjects(ps, qr, key) ==
    [n \in 1..Len(ps) |->
        IF ps[n].pc = "patch" /\ Head(ps[n].keys) = key /\ ~ps[n].stale
        THEN [ps[n] EXCEPT !.stale = TRUE,
                           !.held = qr.usage[plainKey(qr.store.label, key)]]
        ELSE ps[n]]

\* the for loop of bootstrap() over the listed items from index n on:
\* map.set(key, bucket) and recordIds.set(key, id) for the keys of this label
RECURSIVE loadItems(_, _, _, _)
loadItems(qr, items, n, t) ==
    IF n > Len(items) THEN qr
    ELSE IF qr.store.label # NoLabel
            /\ ~startsWith(items[n].key, qr.store.label \o "::")
    THEN loadItems(qr, items, n + 1, t)
    ELSE loadItems([qr EXCEPT !.usage = SetBucket(@, plainKey(qr.store.label, items[n].key),
                                                  parseBucket(items[n].data, t)),
                              !.store.recordIds =
                                  [k \in DOMAIN @ \cup {items[n].key} |->
                                      IF k = items[n].key THEN n ELSE @[k]],
                              !.store.persists = heldObjects(@, qr, items[n].key)],
                   items, n + 1, t)

\* the server answers a request: ok unless it fails the request or the
\* token is not one it accepts
Accepts(token, fault) == fault = "none" /\ token = pb.epoch

\* the queuer and the server after the answer to bootstrap()'s
\* authentication request, then to its list request
bootstrapAuthDone(qr, ok) ==
    IF ok
    THEN [q |-> [qr EXCEPT !.store.auth = pb.epoch, !.store.boot = "list"], pb |-> pb]
    ELSE [q |-> [qr EXCEPT !.store.boot = "failed"], pb |-> pb]

bootstrapListDone(qr, ok, t) ==
    IF ok
    THEN [q |-> [loadItems(qr, pb.records, 1, t) EXCEPT !.store.boot = "done"], pb |-> pb]
    ELSE [q |-> [qr EXCEPT !.store.boot = "done",
                           !.store.refused = IF qr.store.auth = pb.epoch THEN @
                                             ELSE qr.store.auth],
          pb |-> pb]

\* persists without its element n
dropPersist(qr, n) == [qr EXCEPT !.store.persists = RemoveAt(@, n)]

\* the answer to the authentication request of persist() call n
persistAuthDone(qr, n, ok) ==
    IF ok
    THEN [q |-> Only({ [q1 EXCEPT !.store = persistAuthed(@, q1.usage)] :
                          q1 \in {[dropPersist(qr, n) EXCEPT !.store.auth = pb.epoch]} }),
          pb |-> pb]
    ELSE [q |-> dropPersist(qr, n), pb |-> pb]

\* the loop of persist() call n goes on to its next key
persistNext(qr, n) ==
    Only({ [q1 EXCEPT !.store = persistLoop(@, q1.usage, Tail(qr.store.persists[n].keys),
                                            qr.store.persists[n].token)] :
              q1 \in {dropPersist(qr, n)} })

\* a request refused for its token is remembered as such
noteRefused(qr, token) ==
    IF token = pb.epoch THEN qr ELSE [qr EXCEPT !.store.refused = token]

\* the answer to the PATCH of persist() call n: if (!res.ok) createRecord;
\* a request that throws is caught and logged, and the loop goes on
persistPatchDone(qr, n, fault) ==
    Only({ IF fault = "throws" THEN [q |-> persistNext(qr, n), pb |-> pb]
           ELSE IF Accepts(w.token, fault) /\ w.id \in 1..Len(pb.records)
           THEN [q |-> persistNext(qr, n),
                 pb |-> [pb EXCEPT !.records[w.id] = [key |-> Head(w.keys), data |-> w.body]]]
           ELSE [q |-> [noteRefused(qr, w.token) EXCEPT
                           !.store.persists[n].pc = "create",
                           !.store.persists[n].body =
                               IF w.stale THEN w.held
                               ELSE qr.usage[plainKey(qr.store.label, Head(w.keys))]],
                 pb |-> pb] :
              w \in {qr.store.persists[n]} })

\* the answer to the POST of createRecord: if (res.ok) recordIds.set(key, id),
\* else the failure is logged; either way the loop goes on
persistCreateDone(qr, n, fault) ==
    Only({ IF fault # "throws" /\ Accepts(w.token, fault)
           THEN [q |-> persistNext([qr EXCEPT !.store.recordIds =
                                       [k \in DOMAIN @ \cup {Head(w.keys)} |->
                                           IF k = Head(w.keys) THEN Len(pb.records) + 1
                                           ELSE @[k]]], n),
                 pb |-> [pb EXCEPT !.records =
                            Append(@, [key |-> Head(w.keys), data |-> w.body])]]
           ELSE [q |-> persistNext(IF fault = "throws" THEN qr
                                   ELSE noteRefused(qr, w.token), n),
                 pb |-> pb] :
              w \in {qr.store.persists[n]} })

----------------------------------------------------------------------------
(* The server: queuesByProvider and clientsByProvider, chooseQueue and the *)
(* POST /ask handler.  A queuer of the server is a record of the fields of *)
(* a RequestQueuer; its dispatch loop is the one of processQueue.          *)

Queuer(o) ==
    [opts |-> o, queue |-> << >>, isProcessing |-> FALSE, usage |-> NoUsage,
     local |-> Local("exit", NoItem, 0, 0, << >>),
     execEwma |-> [n |-> 0, num |-> 0], fast |-> 0, store |-> RAMStore]

\* the queuer once its dispatch loop has gone on from the top of the while
\* loop, with queue q and usage u, up to its next await or its exit
queuerResume(qr, q, u, t, tz) ==
    Only({ [qr EXCEPT !.queue = r.queue, !.usage = r.usage, !.local = r.local,
                      !.isProcessing = (r.local.pc # "exit"),
                      !.store = noteCreated(@, qr.usage, r.usage)] :
              r \in {loopStep(q, u, qr.opts, t, tz)} })

\* the queuer after add(execute, tokenText, modelName)
queuerAdd(qr, item, t, tz) ==
    IF takesFastPath(qr.opts, item.modelName)
    THEN [qr EXCEPT !.fast = @ + 1]
    ELSE IF processQueueReturnsAtOnce(qr.isProcessing)
    THEN [qr EXCEPT !.queue = Append(@, item)]
    ELSE queuerResume(qr, Append(qr.queue, item), qr.usage, t, tz)

\* the queuer after the execute() it awaits has settled at t, its loop at
\* its next await
queuerAfterSettle(qr, ok, t, tz) ==
    Only({ IF qr.opts.fallbackDelayMs # 0 /\ Len(qr.queue) > 0
           THEN [qr EXCEPT !.usage = u1,
                           !.execEwma = updateExecDuration(@, t - qr.local.start),
                           !.local = Local("delay", NoItem, 0,
                                           t + qr.opts.fallbackDelayMs, << >>),
                           !.store = noteCreated(@, qr.usage, u1)]
           ELSE queuerResume([qr EXCEPT !.execEwma =
                                           updateExecDuration(@, t - qr.local.start)],
                             qr.queue, u1, t, tz) :
              u1 \in {usageAfterExecute(qr.usage, ok, t, tz, qr.local.item.tokens,
                                        qr.local.item.modelName)} })

\* the calls of usage.persist() made for an item: one by recordUsage and one
\* by processQueue, both only after execute() resolved
persistCalls(ok) == IF ok THEN 2 ELSE 0

\* the queuer after the execute() it awaits has settled at t: the record,
\* the calls of persist() and the loop up to its next await
queuerAfterExecute(qr, ok, t, tz) ==
    Only({ [q1 EXCEPT !.store =
                         persistTimes(IF ok THEN noteRecorded(@, qr.local.item.modelName)
                                      ELSE @,
                                      q1.usage, persistCalls(ok))] :
              q1 \in {queuerAfterSettle(qr, ok, t, tz)} })

Target(provider, model) == [provider |-> provider, model |-> model]
Client(provider, k) == [provider |-> provider, key |-> k]

\* queues[i].getQueueLength() smallest, the first of them
getLeastLoadedIndex(queues) ==
    IF queues = << >> THEN 0
    ELSE CHOOSE i \in 1..Len(queues) :
            /\ \A j \in 1..Len(queues) : Len(queues[i].queue) <= Len(queues[j].queue)
            /\ \A j \in 1..(i - 1) : Len(queues[j].queue) > Len(queues[i].queue)

RECURSIVE bestOfWaitsLastWins(_, _, _, _)
bestOfWaitsLastWins(waits, i, bestIdx, bestWait) ==
    IF i > Len(waits) THEN [idx |-> bestIdx, wait |-> bestWait]
    ELSE IF waits[i] <= bestWait THEN bestOfWaitsLastWins(waits, i + 1, i, waits[i])
    ELSE bestOfWaitsLastWins(waits, i + 1, bestIdx, bestWait)

\* the loop of chooseQueue over the estimates from index i on:
\* if (wait < bestWait) { bestWait = wait; bestIdx = i }
RECURSIVE bestOfWaits(_, _, _, _)
bestOfWaits(waits, i, bestIdx, bestWait) ==
    IF i > Len(waits) THEN [idx |-> bestIdx, wait |-> bestWait]
    ELSE IF waits[i] < bestWait THEN bestOfWaits(waits, i + 1, i, waits[i])
    ELSE bestOfWaits(waits, i + 1, bestIdx, bestWait)

NoSelection == [kind |-> "null"]
Threw(message) == [kind |-> "threw", message |-> message]
Hangs == [kind |-> "hangs"]

\* a chooseQueue that takes the queuer with the fewest queued items
chooseAmongLeastLoaded(provider, model, queues, clients, es) ==
    IF \E i \in 1..Len(es) : ~es[i].returns THEN Hangs
    ELSE [kind |-> "sel", provider |-> provider, model |-> model,
          idx |-> getLeastLoadedIndex(queues),
          client |-> clients[getLeastLoadedIndex(queues)],
          estimatedWaitMs |-> es[getLeastLoadedIndex(queues)].value]

\* what the loop of chooseQueue yields for the estimates es of the queuers
chooseAmong(provider, model, queues, clients, es) ==
    IF \E i \in 1..Len(es) : ~es[i].returns THEN Hangs
    ELSE Only({ [kind |-> "sel", provider |-> provider, model |-> model,
                 idx |-> IF b.idx = 0 THEN getLeastLoadedIndex(queues) ELSE b.idx,
                 client |-> clients[IF b.idx = 0 THEN getLeastLoadedIndex(queues)
                                    ELSE b.idx],
                 estimatedWaitMs |-> b.wait] :
                   b \in {bestOfWaits([i \in 1..Len(es) |-> es[i].value], 1, 0,
                                      PosInfinity)} })

\* chooseQueue(provider, model, tokenText).  queuesByProvider[provider] of a
\* name inherited from Object.prototype is a function of length >= 1, whose
\* element 0 is undefined; estimateWaitMs of such a model name throws in
\* getActiveLimits.
chooseQueue(qs, cs, provider, model, tokensNeeded, t, tz) ==
    IF provider \notin DOMAIN qs /\ provider \in InheritedFunctions
    THEN Threw("TypeError")
    ELSE IF \/ provider \notin DOMAIN qs \/ provider \notin DOMAIN cs
            \/ qs[provider] = << >> \/ cs[provider] = << >>
    THEN NoSelection
    ELSE IF \E i \in 1..Len(qs[provider]) :
               getActiveLimitsThrows(qs[provider][i].opts, model)
    THEN Threw("TypeError")
    ELSE chooseAmong(provider, model, qs[provider], cs[provider],
                     [i \in 1..Len(qs[provider]) |->
                         estimateWaitMs(qs[provider][i].opts, qs[provider][i].usage,
                                        qs[provider][i].queue, t, tz,
                                        qs[provider][i].execEwma, model, tokensNeeded)])

noBestFallsBack(qs, cs, targets) ==
    IF \E p \in DOMAIN qs : qs[p] # << >>
    THEN Only({ [kind |-> "sel", provider |-> p, model |-> targets[1].model, idx |-> 1,
                 client |-> cs[p][1], estimatedWaitMs |-> 0] :
                    p \in {CHOOSE p \in DOMAIN qs : qs[p] # << >>} })
    ELSE Threw("No available provider queues. Service not initialized")

\* if (!best) throw new Error("No available provider queues. ...")
noBest(qs, cs, targets) ==
    Threw("No available provider queues. Service not initialized")

\* the handler's loop over the targets from index i on, best so far given
RECURSIVE selectBest(_, _, _, _, _, _, _, _)
selectNext(qs, cs, targets, tokensNeeded, t, tz, i, best, sel) ==
    IF sel.kind \in {"threw", "hangs"} THEN sel
    ELSE IF sel.kind = "null"
    THEN selectBest(qs, cs, targets, tokensNeeded, t, tz, i + 1, best)
    ELSE IF best.kind = "null" \/ sel.estimatedWaitMs < best.estimatedWaitMs
    THEN selectBest(qs, cs, targets, tokensNeeded, t, tz, i + 1, sel)
    ELSE selectBest(qs, cs, targets, tokensNeeded, t, tz, i + 1, best)

selectBest(qs, cs, targets, tokensNeeded, t, tz, i, best) ==
    IF i > Len(targets)
    THEN (IF best.kind = "null" THEN noBest(qs, cs, targets) ELSE best)
    ELSE Only({ selectNext(qs, cs, targets, tokensNeeded, t, tz, i, best, sel) :
                   sel \in {chooseQueue(qs, cs, targets[i].provider, targets[i].model,
                                        tokensNeeded, t, tz)} })

\* the event loop is stuck in an estimateWaitMs that does not return
Stuck == routed.outcome = "hangs"

\* POST /ask with the given targets and a history of the given token count:
\* the selection and, unless it threw, best.queue.add(...), whose execute
\* closure holds best.client.  routed keeps the request, the selection and
\* the queuers it was made on.
AskWith(targets, tokens, best) ==
    /\ routed' = [n |-> routed.n + (IF best.kind = "sel" THEN 1 ELSE 0),
                  outcome |-> best.kind, targets |-> targets, tokens |-> tokens,
                  at |-> now, best |-> best, queues |-> queuesByProvider,
                  clients |-> clientsByProvider]
    /\ queuesByProvider' =
          IF best.kind = "sel"
          THEN [queuesByProvider EXCEPT ![best.provider][best.idx] =
                   queuerAdd(@, [id |-> routed.n + 1, tokens |-> tokens,
                                 modelName |-> best.model, client |-> best.client],
                             now, env.tz)]
          ELSE queuesByProvider

Ask(targets, tokens) ==
    /\ ~Stuck
    /\ routed.n < MaxAsks
    /\ \E best \in {selectBest(queuesByProvider, clientsByProvider, targets, tokens,
                                now, env.tz, 1, NoSelection)} :
          AskWith(targets, tokens, best)
    /\ UNCHANGED << replaced, pb, ret, clientsByProvider, opts, env, now, queue, isProcessing, usage,
                    loops, execEwma, fast, nextId, started, done, lastScan >>

\* the execute() awaited by the dispatch loop of queuer i of provider p settles
QueuerExecSettles(p, i, ok) ==
    /\ ~Stuck
    /\ queuesByProvider[p][i].local.pc = "exec"
    /\ queuesByProvider' = [queuesByProvider EXCEPT ![p][i] =
                               queuerAfterExecute(@, ok, now, env.tz)]
    /\ UNCHANGED << replaced, pb, ret, clientsByProvider, routed, opts, env, now, queue, isProcessing,
                    usage, loops, execEwma, fast, nextId, started, done, lastScan >>

\* the idle sleep or the fallback delay of a dispatch loop is over
QueuerTimerFires(p, i) ==
    /\ ~Stuck
    /\ queuesByProvider[p][i].local.pc \in {"sleep", "delay"}
    /\ now >= queuesByProvider[p][i].local.wakeAt
    /\ queuesByProvider' = [queuesByProvider EXCEPT ![p][i] =
                               queuerResume(@, @.queue, @.usage, now, env.tz)]
    /\ UNCHANGED << replaced, pb, ret, clientsByProvider, routed, opts, env, now, queue, isProcessing,
                    usage, loops, execEwma, fast, nextId, started, done, lastScan >>

\* the execute() of a fast-path call settles
QueuerFastSettles(p, i) ==
    /\ ~Stuck
    /\ queuesByProvider[p][i].fast > 0
    /\ queuesByProvider' = [queuesByProvider EXCEPT ![p][i].fast = @ - 1]
    /\ UNCHANGED << replaced, pb, ret, clientsByProvider, routed, opts, env, now, queue, isProcessing,
                    usage, loops, execEwma, fast, nextId, started, done, lastScan >>

\* the options bootstrap() builds queuers with
WithLimits(dl) == [defaultLimits |-> dl, modelLimits |-> NoModelLimits, fallbackDelayMs |-> 0]
Plain == [defaultLimits |-> << >>, modelLimits |-> NoModelLimits, fallbackDelayMs |-> 0]

\* the servers: a clients array of the length of each queues array
Servers ==
    { [p \in {"mistral"} |-> << WithLimits(<< L("TPm", 3) >>), WithLimits(<< L("TPm", 3) >>) >>],
      [p \in {"mistral"} |-> << WithLimits(<< L("RPS", 1) >>), WithLimits(<< L("RPS", 1) >>) >>],
      [p \in {"mistral", "gemini"} |->
          IF p = "mistral" THEN << WithLimits(<< L("RPS", 1) >>) >> ELSE << Plain >>],
      [p \in {"mistral"} |-> << >>] }

Request(targets, tokens) == [targets |-> targets, tokens |-> tokens]

Requests ==
    { Request(<< Target("mistral", "m") >>, 1),
      Request(<< Target("mistral", "m") >>, 3),
      Request(<< Target("mistral", "m"), Target("gemini", "m") >>, 1),
      Request(<< Target("constructor", "m"), Target("mistral", "m") >>, 1),
      Request(<< Target("gemini", "m") >>, 1) }

InitRouter ==
    \E srv \in Servers :
       /\ queuesByProvider = [p \in DOMAIN srv |-> [i \in 1..Len(srv[p]) |-> Queuer(srv[p][i])]]
       /\ clientsByProvider = [p \in DOMAIN srv |-> [i \in 1..Len(srv[p]) |-> Client(p, i)]]
       /\ routed = NoRequest
       /\ replaced = << >>
       /\ pb = NoPocketBase
       /\ opts = Plain
       /\ env = [tz |-> 0, ticks |-> {512}, kinds |-> Requests, t0 |-> 0,
                 thrown |-> {AnError}, horizon |-> 1024, stop |-> 1024, calls |-> {}]
       /\ now = 0
       /\ queue = << >>
       /\ isProcessing = FALSE
       /\ usage = NoUsage
       /\ loops = << >>
       /\ execEwma = [n |-> 0, num |-> 0]
       /\ fast = {}
       /\ nextId = 1
       /\ started = << >>
       /\ done = << >>
       /\ lastScan = NoScan
       /\ ret = NoCall

NextRouter ==
    \/ \E rq \in env.kinds : Ask(rq.targets, rq.tokens)
    \/ \E p \in DOMAIN queuesByProvider :
          \E i \in 1..Len(queuesByProvider[p]), ok \in BOOLEAN : QueuerExecSettles(p, i, ok)
    \/ \E p \in DOMAIN queuesByProvider :
          \E i \in 1..Len(queuesByProvider[p]) : QueuerTimerFires(p, i)
    \/ \E p \in DOMAIN queuesByProvider :
          \E i \in 1..Len(queuesByProvider[p]) : QueuerFastSettles(p, i)
    \/ \E d \in env.ticks : Tick(d)

SpecRouter == InitRouter /\ [][NextRouter]_vars

----------------------------------------------------------------------------
(* POST /admin/reload-keys: rebuild(prov) puts fresh client and queuer     *)
(* pairs, built from the key configs the resolver returns, in the place of *)
(* the provider's arrays.  The queuers taken out stay alive as long as a   *)
(* closure, a timer or a request refers to them: replaced keeps them, each *)
(* with the client it was paired with.                                     *)

NoDelay == -1   \* kc.delayMs null or undefined

KeyConfig(key, label, dl, delayMs) ==
    [key |-> key, label |-> label, defaultLimits |-> dl,
     modelLimits |-> NoModelLimits, delayMs |-> delayMs]

\* new MistralService(kc.key) / new GeminiService(kc.key): the n-th set of
\* clients built for the provider
Service(provider, key, n) == [provider |-> provider, key |-> key, gen |-> n]

\* the options of the three branches of rebuild() and bootstrap()
queuerOptions(kc) ==
    IF kc.defaultLimits # << >> \/ DOMAIN kc.modelLimits # {}
    THEN [defaultLimits |-> kc.defaultLimits, modelLimits |-> kc.modelLimits,
          fallbackDelayMs |-> 0]
    ELSE IF kc.delayMs # NoDelay
    THEN [defaultLimits |-> << >>, modelLimits |-> NoModelLimits,
          fallbackDelayMs |-> kc.delayMs]
    ELSE Plain

\* label: kc.label || "default"
labelOf(kc) == IF kc.label = NoLabel THEN "default" ELSE kc.label

\* new RequestQueuer({..., label, usageStrategy: USAGE_STRATEGY})
newRequestQueuer(kc, strategy) ==
    [Queuer(queuerOptions(kc)) EXCEPT
        !.store = IF strategy = "pocketbase" THEN newPocketbaseStore(labelOf(kc))
                  ELSE RAMStore]

\* a queuer that something still refers to: a queued item's promise, the
\* continuation of its loop, a call in flight, the timer or a request of
\* its store
Alive(qr) ==
    \/ qr.queue # << >> \/ qr.local.pc # "exit" \/ qr.fast > 0
    \/ qr.store.kind = "pocketbase"

RECURSIVE AlivePairs(_, _, _, _)
AlivePairs(provider, queues, clients, n) ==
    IF n > Len(queues) THEN << >>
    ELSE (IF Alive(queues[n])
          THEN << [provider |-> provider, queue |-> queues[n], client |-> clients[n]] >>
          ELSE << >>) \o AlivePairs(provider, queues, clients, n + 1)

\* the clients built so far that are still referred to
ClientsAlive ==
    UNION { { clientsByProvider[p][i] : i \in 1..Len(clientsByProvider[p]) } :
               p \in DOMAIN clientsByProvider }
    \cup { replaced[k].client : k \in 1..Len(replaced) }

NextGen == IF ClientsAlive = {} THEN 1 ELSE 1 + SetMax({ c.gen : c \in ClientsAlive })

\* the arrays of the server with those of prov set to value
WithProvider(byProvider, prov, value) ==
    [p \in DOMAIN byProvider \cup {prov} |-> IF p = prov THEN value ELSE byProvider[p]]

\* rebuild(prov) once the resolver has returned keyConfigs
rebuild(prov, keyConfigs) ==
    /\ clientsByProvider' =
          WithProvider(clientsByProvider, prov,
                       [n \in 1..Len(keyConfigs) |->
                           Service(prov, keyConfigs[n].key, NextGen)])
    /\ queuesByProvider' =
          WithProvider(queuesByProvider, prov,
                       [n \in 1..Len(keyConfigs) |->
                           newRequestQueuer(keyConfigs[n], env.usageStrategy)])
    /\ replaced' =
          replaced \o (IF prov \in DOMAIN queuesByProvider
                       THEN AlivePairs(prov, queuesByProvider[prov],
                                       clientsByProvider[prov], 1)
                       ELSE << >>)

\* POST /admin/reload-keys for one provider
Reload(prov, keyConfigs) ==
    /\ ~Stuck
    /\ NextGen <= MaxReloads
    /\ rebuild(prov, keyConfigs)
    /\ UNCHANGED << pb, routed, ret, opts, env, now, queue, isProcessing, usage, loops,
                    execEwma, fast, nextId, started, done, lastScan >>

\* the execute() awaited by the dispatch loop of replaced queuer k settles
ReplacedExecSettles(k, ok) ==
    /\ ~Stuck
    /\ replaced[k].queue.local.pc = "exec"
    /\ replaced' = [replaced EXCEPT ![k].queue = queuerAfterExecute(@, ok, now, env.tz)]
    /\ UNCHANGED << pb, queuesByProvider, clientsByProvider, routed, ret, opts, env, now,
                    queue, isProcessing, usage, loops, execEwma, fast, nextId, started,
                    done, lastScan >>

\* the idle sleep or the fallback delay of a replaced queuer's loop is over
ReplacedTimerFires(k) ==
    /\ ~Stuck
    /\ replaced[k].queue.local.pc \in {"sleep", "delay"}
    /\ now >= replaced[k].queue.local.wakeAt
    /\ replaced' = [replaced EXCEPT ![k].queue =
                       queuerResume(@, @.queue, @.usage, now, env.tz)]
    /\ UNCHANGED << pb, queuesByProvider, clientsByProvider, routed, ret, opts, env, now,
                    queue, isProcessing, usage, loops, execEwma, fast, nextId, started,
                    done, lastScan >>

\* the execute() of a fast-path call made through a replaced queuer settles
ReplacedFastSettles(k) ==
    /\ ~Stuck
    /\ replaced[k].queue.fast > 0
    /\ replaced' = [replaced EXCEPT ![k].queue.fast = @ - 1]
    /\ UNCHANGED << pb, queuesByProvider, clientsByProvider, routed, ret, opts, env, now,
                    queue, isProcessing, usage, loops, execEwma, fast, nextId, started,
                    done, lastScan >>

\* where a queuer is: in queuesByProvider[p][i], or in replaced[k]
Current(p, i) == [old |-> FALSE, p |-> p, i |-> i, k |-> 0]
Replaced(k) == [old |-> TRUE, p |-> "", i |-> 0, k |-> k]

Places ==
    UNION { { Current(p, i) : i \in 1..Len(queuesByProvider[p]) } :
               p \in DOMAIN queuesByProvider }
    \cup { Replaced(k) : k \in 1..Len(replaced) }

QueuerAt(at) ==
    IF at.old THEN replaced[at.k].queue ELSE queuesByProvider[at.p][at.i]

\* the queuer at a place becomes qr
PutQueuer(at, qr) ==
    IF at.old
    THEN /\ replaced' = [replaced EXCEPT ![at.k].queue = qr]
         /\ UNCHANGED queuesByProvider
    ELSE /\ queuesByProvider' = [queuesByProvider EXCEPT ![at.p][at.i] = qr]
         /\ UNCHANGED replaced

\* the steps of a store and of the server leave the rest as it is
StoreStep(at, r, failed) ==
    /\ PutQueuer(at, r.q)
    /\ pb' = [r.pb EXCEPT !.faults = @ - (IF failed THEN 1 ELSE 0)]
    /\ UNCHANGED << clientsByProvider, routed, ret, opts, env, now, queue, isProcessing,
                    usage, loops, execEwma, fast, nextId, started, done, lastScan >>

\* what the server does to a request: answers it, answers with an error
\* status, or the request throws (the connection fails)
Faults == {"none", "status", "throws"}

MayFail(fault) == fault = "none" \/ pb.faults > 0

\* the answer to the authentication request of bootstrap()
BootstrapAuthDone(at, ok) ==
    /\ ~Stuck
    /\ QueuerAt(at).store.kind = "pocketbase"
    /\ QueuerAt(at).store.boot = "auth"
    /\ ok \/ pb.faults > 0
    /\ StoreStep(at, bootstrapAuthDone(QueuerAt(at), ok), ~ok)

\* the answer to the list request of bootstrap()
BootstrapListDone(at, fault) ==
    /\ ~Stuck
    /\ QueuerAt(at).store.kind = "pocketbase"
    /\ QueuerAt(at).store.boot = "list"
    /\ MayFail(fault)
    /\ StoreStep(at, bootstrapListDone(QueuerAt(at),
                                       Accepts(QueuerAt(at).store.auth, fault), now),
                 fault # "none")

\* the interval timer of a store fires: persist()
FlushTimerFires(at) ==
    /\ ~Stuck
    /\ QueuerAt(at).store.kind = "pocketbase"
    /\ QueuerAt(at).store.timer
    /\ QueuerAt(at).store.flushes < MaxFlushes
    /\ StoreStep(at, [q |-> [QueuerAt(at) EXCEPT
                                !.store = [persist(@, QueuerAt(at).usage) EXCEPT
                                              !.flushes = @ + 1]],
                      pb |-> pb], FALSE)

\* the answer to the authentication request of a call of persist()
PersistAuthDone(at, n, ok) ==
    /\ ~Stuck
    /\ QueuerAt(at).store.kind = "pocketbase"
    /\ n \in 1..Len(QueuerAt(at).store.persists)
    /\ QueuerAt(at).store.persists[n].pc = "auth"
    /\ ok \/ pb.faults > 0
    /\ StoreStep(at, persistAuthDone(QueuerAt(at), n, ok), ~ok)

\* the answer to the PATCH of a call of persist()
PersistPatchDone(at, n, fault) ==
    /\ ~Stuck
    /\ QueuerAt(at).store.kind = "pocketbase"
    /\ n \in 1..Len(QueuerAt(at).store.persists)
    /\ QueuerAt(at).store.persists[n].pc = "patch"
    /\ MayFail(fault)
    /\ StoreStep(at, persistPatchDone(QueuerAt(at), n, fault), fault # "none")

\* the answer to the POST of createRecord
PersistCreateDone(at, n, fault) ==
    /\ ~Stuck
    /\ QueuerAt(at).store.kind = "pocketbase"
    /\ n \in 1..Len(QueuerAt(at).store.persists)
    /\ QueuerAt(at).store.persists[n].pc = "create"
    /\ MayFail(fault)
    /\ StoreStep(at, persistCreateDone(QueuerAt(at), n, fault), fault # "none")

\* the tokens the server has given out run out
TokensExpire ==
    /\ pb.expiries > 0
    /\ pb' = [pb EXCEPT !.epoch = @ + 1, !.expiries = @ - 1]
    /\ UNCHANGED << queuesByProvider, clientsByProvider, routed, replaced, ret, opts, env,
                    now, queue, isProcessing, usage, loops, execEwma, fast, nextId,
                    started, done, lastScan >>

\* A server whose bootstrap() resolved the key configs boot (per provider)
\* under the given USAGE_STRATEGY, with the PocketBase server remote;
\* configs are the key configs the resolver may return to
\* a reload, requests what is asked of the server, asks how many times.
Server(strategy, boot, configs, requests, asks, remote) ==
    [strategy |-> strategy, boot |-> boot, configs |-> configs, requests |-> requests,
     asks |-> asks, remote |-> remote]

InitServer(srv) ==
    /\ queuesByProvider =
          [p \in DOMAIN srv.boot |->
              [n \in 1..Len(srv.boot[p]) |-> newRequestQueuer(srv.boot[p][n], srv.strategy)]]
    /\ clientsByProvider =
          [p \in DOMAIN srv.boot |->
              [n \in 1..Len(srv.boot[p]) |-> Service(p, srv.boot[p][n].key, 0)]]
    /\ replaced = << >>
    /\ pb = srv.remote
    /\ routed = NoRequest
    /\ opts = Plain
    /\ env = [tz |-> 0, ticks |-> {512}, kinds |-> srv.requests, t0 |-> 512,
              thrown |-> {AnError}, horizon |-> 1536, stop |-> 1536, calls |-> {},
              usageStrategy |-> srv.strategy, configs |-> srv.configs,
              asks |-> srv.asks]
    /\ now = 512
    /\ queue = << >>
    /\ isProcessing = FALSE
    /\ usage = NoUsage
    /\ loops = << >>
    /\ execEwma = [n |-> 0, num |-> 0]
    /\ fast = {}
    /\ nextId = 1
    /\ started = << >>
    /\ done = << >>
    /\ lastScan = NoScan
    /\ ret = NoCall

OneKey(kc) == [p \in {"mistral"} |-> << kc >>]

\* the servers a reload is made on: a key with a limit, a key with a delay,
\* a key with neither, and a key with a limit under USAGE_STRATEGY pocketbase
\* with a server that fails no request
ReloadServers ==
    { Server("RAM", OneKey(KeyConfig("k1", NoLabel, << L("RPS", 1) >>, NoDelay)),
             { << KeyConfig("k1", NoLabel, << L("RPS", 1) >>, NoDelay) >>, << >> },
             { Request(<< Target("mistral", "m") >>, 1) }, MaxAsks, NoPocketBase),
      Server("RAM", OneKey(KeyConfig("k1", NoLabel, << >>, 1000)),
             { << KeyConfig("k1", NoLabel, << >>, 1000),
                  KeyConfig("k2", NoLabel, << >>, 1000) >> },
             { Request(<< Target("mistral", "m") >>, 1) }, MaxAsks, NoPocketBase),
      Server("RAM", OneKey(KeyConfig("k1", NoLabel, << >>, NoDelay)),
             { << KeyConfig("k1", NoLabel, << >>, NoDelay) >> },
             { Request(<< Target("mistral", "m") >>, 1) }, MaxAsks, NoPocketBase),
      Server("pocketbase", OneKey(KeyConfig("k1", "q1", << L("RPM", 2) >>, NoDelay)),
             { << KeyConfig("k1", "q1", << L("RPM", 2) >>, NoDelay) >> },
             { Request(<< Target("mistral", "m") >>, 1) }, 1, NoPocketBase) }

InitReload == \E srv \in ReloadServers : InitServer(srv)

NextReload ==
    \/ \E rq \in env.kinds : routed.n < env.asks /\ Ask(rq.targets, rq.tokens)
    \/ \E p \in DOMAIN queuesByProvider :
          \E i \in 1..Len(queuesByProvider[p]), ok \in BOOLEAN : QueuerExecSettles(p, i, ok)
    \/ \E p \in DOMAIN queuesByProvider :
          \E i \in 1..Len(queuesByProvider[p]) : QueuerTimerFires(p, i)
    \/ \E p \in DOMAIN queuesByProvider :
          \E i \in 1..Len(queuesByProvider[p]) : QueuerFastSettles(p, i)
    \/ \E kcs \in env.configs : Reload("mistral", kcs)
    \/ \E k \in 1..Len(replaced), ok \in BOOLEAN : ReplacedExecSettles(k, ok)
    \/ \E k \in 1..Len(replaced) : ReplacedTimerFires(k)
    \/ \E k \in 1..Len(replaced) : ReplacedFastSettles(k)
    \/ \E at \in Places : BootstrapAuthDone(at, TRUE)
    \/ \E at \in Places : BootstrapListDone(at, "none")
    \/ \E at \in Places : FlushTimerFires(at)
    \/ \E at \in Places, n \in 1..MaxPersists : PersistAuthDone(at, n, TRUE)
    \/ \E at \in Places, n \in 1..MaxPersists : PersistCreateDone(at, n, "none")
    \/ \E d \in env.ticks : Tick(d)

SpecReload == InitReload /\ [][NextReload]_vars

\* the timers of the dispatch loops that are set for a later time
TimersSet ==
    { QueuerAt(at).local.wakeAt :
         at \in { a \in Places : /\ QueuerAt(a).local.pc \in {"sleep", "delay"}
                                 /\ QueuerAt(a).local.wakeAt > now } }

\* time passes until the earliest timer of a dispatch loop is due
ClockReachesTimer ==
    /\ TimersSet # {}
    /\ now' = SetMin(TimersSet)
    /\ UNCHANGED << serverVars, ret, opts, env, queue, isProcessing, usage, loops,
                    execEwma, fast, nextId, started, done, lastScan >>

\* the reload scenarios with the in-memory usage store
InitReloadLive == \E srv \in { s \in ReloadServers : s.strategy = "RAM" } : InitServer(srv)

NextReloadLive ==
    \/ \E rq \in env.kinds : routed.n < env.asks /\ Ask(rq.targets, rq.tokens)
    \/ \E p \in DOMAIN queuesByProvider :
          \E i \in 1..Len(queuesByProvider[p]), ok \in BOOLEAN : QueuerExecSettles(p, i, ok)
    \/ \E p \in DOMAIN queuesByProvider :
          \E i \in 1..Len(queuesByProvider[p]) : QueuerTimerFires(p, i)
    \/ \E p \in DOMAIN queuesByProvider :
          \E i \in 1..Len(queuesByProvider[p]) : QueuerFastSettles(p, i)
    \/ \E kcs \in env.configs : Reload("mistral", kcs)
    \/ \E k \in 1..Len(replaced), ok \in BOOLEAN : ReplacedExecSettles(k, ok)
    \/ \E k \in 1..Len(replaced) : ReplacedTimerFires(k)
    \/ \E k \in 1..Len(replaced) : ReplacedFastSettles(k)
    \/ ClockReachesTimer

\* a provider call that was made returns or throws, a timer that is due
\* fires, and time passes
ReloadFairness ==
    /\ WF_vars(\E k \in 1..Len(replaced), ok \in BOOLEAN : ReplacedExecSettles(k, ok))
    /\ WF_vars(\E k \in 1..Len(replaced) : ReplacedTimerFires(k))
    /\ WF_vars(ClockReachesTimer)

SpecReloadLive == InitReloadLive /\ [][NextReloadLive]_vars /\ ReloadFairness

\* a record of the usage collection: the bucket of model m as a process with
\* label q1 left it after n requests
StoredBucket(key, n) ==
    [key |-> key, data |-> [makeInitial(512, 0) EXCEPT !.monthRequestCount = n]]

TwoKeys(kc1, kc2) == [p \in {"mistral"} |-> << kc1, kc2 >>]

\* the servers under USAGE_STRATEGY pocketbase: a key whose bucket of model m
\* is in the collection with 10 requests; a key with a PocketBase server
\* that fails requests and whose tokens run out; two keys without a label
StoreServers ==
    { Server("pocketbase", OneKey(KeyConfig("k1", "q1", << L("RPS", 1) >>, NoDelay)),
             {}, { Request(<< Target("mistral", "m") >>, 1) }, 2,
             PocketBase(<< StoredBucket("q1::m", 10) >>, 0, 0)),
      Server("pocketbase", OneKey(KeyConfig("k1", "q1", << L("RPM", 2) >>, NoDelay)),
             {}, { Request(<< Target("mistral", "m") >>, 1) }, 1,
             PocketBase(<< >>, MaxFaults, MaxExpiries)),
      Server("pocketbase", TwoKeys(KeyConfig("k1", NoLabel, << L("RPM", 2) >>, NoDelay),
                                   KeyConfig("k2", NoLabel, << L("RPM", 2) >>, NoDelay)),
             {}, { Request(<< Target("mistral", "m") >>, 1) }, 1,
             PocketBase(<< >>, 0, 0)) }

InitStore == \E srv \in StoreServers : InitServer(srv)

NextStore ==
    \/ \E rq \in env.kinds : routed.n < env.asks /\ Ask(rq.targets, rq.tokens)
    \/ \E p \in DOMAIN queuesByProvider :
          \E i \in 1..Len(queuesByProvider[p]), ok \in BOOLEAN : QueuerExecSettles(p, i, ok)
    \/ \E p \in DOMAIN queuesByProvider :
          \E i \in 1..Len(queuesByProvider[p]) : QueuerTimerFires(p, i)
    \/ \E at \in Places, ok \in BOOLEAN : BootstrapAuthDone(at, ok)
    \/ \E at \in Places, fault \in Faults : BootstrapListDone(at, fault)
    \/ \E at \in Places : FlushTimerFires(at)
    \/ \E at \in Places, n \in 1..MaxPersists, ok \in BOOLEAN : PersistAuthDone(at, n, ok)
    \/ \E at \in Places, n \in 1..MaxPersists, fault \in Faults :
          PersistPatchDone(at, n, fault)
    \/ \E at \in Places, n \in 1..MaxPersists, fault \in Faults :
          PersistCreateDone(at, n, fault)
    \/ TokensExpire
    \/ \E d \in env.ticks : Tick(d)

SpecStore == InitStore /\ [][NextStore]_vars

\* an execute closure that looks the client up when it is called
calledClientOfProvider(item) ==
    IF clientsByProvider[item.client.provider] = << >> THEN item.client
    ELSE clientsByProvider[item.client.provider][1]

\* the client the execute closure of an item calls: best!.client
calledClient(item) == item.client

----------------------------------------------------------------------------
(* Properties *)

Range(f) == { f[i] : i \in DOMAIN f }
ModelOfKey(k) == IF k = DefaultKey THEN NoModel ELSE k
Queued(n) == ~done[n].fastPath
ExecCount == Cardinality({ k \in 1..Len(loops) : loops[k].pc = "exec" })

WindowOf(b, ty) ==
    CASE ty = "RPS" -> b.secondWindowTimestamps
      [] ty = "RPm" -> b.minuteWindowTimestamps
      [] ty = "RPD" -> b.dayWindowTimestamps

\* the first index of waits that is runnable, 0 if there is none
FirstRunnable(waits) ==
    IF \E j \in 1..Len(waits) : Runnable(waits[j])
    THEN CHOOSE j \in 1..Len(waits) :
            Runnable(waits[j]) /\ \A i \in 1..(j - 1) : ~Runnable(waits[i])
    ELSE 0

\* the place of item id in the dispatch order, 0 if it was not dispatched
StartPos(id) ==
    IF \E n \in 1..Len(started) : started[n].id = id
    THEN CHOOSE n \in 1..Len(started) : started[n].id = id
    ELSE 0

\* C1 (window honesty): when a usage record is added, each sliding window
\* (RPS, RPm, RPD) that is limited for the item's model holds at most `limit`
\* timestamps, the new one included and before any pruning; and every item
\* handed to execute() had an admission wait of 0.
C1_WindowHonesty ==
    /\ \A n \in 1..Len(done) :
          (done[n].ok /\ Queued(n)) =>
             \A l \in Range(getActiveLimits(opts, done[n].modelName)) :
                l.type \in {"RPS", "RPm", "RPD"} =>
                   Len(WindowOf(done[n].pushed, l.type)) <= l.limit
    /\ \A n \in 1..Len(started) : started[n].wait = 0

\* a record was added to a window that already held a timestamp and is now
\* exactly at its limit of 2
C1_Witness ==
    \E n \in 1..Len(done) :
       /\ done[n].ok /\ Queued(n)
       /\ \E l \in Range(getActiveLimits(opts, done[n].modelName)) :
             l.type = "RPS" /\ l.limit = 2
             /\ Len(done[n].pushed.secondWindowTimestamps) = 2

C3_FifoPerModel ==
    /\ \A m, n \in 1..Len(started) :
          (m < n /\ started[m].modelName = started[n].modelName)
             => started[m].id < started[n].id
    /\ \A m, n \in 1..Len(done) :
          (m < n /\ Queued(m) /\ Queued(n) /\ done[m].modelName = done[n].modelName)
             => done[m].id < done[n].id

NothingAdded(b0, b1) ==
    /\ DOMAIN b1 \subseteq DOMAIN b0
    /\ \A k \in DOMAIN b1 :
          /\ Range(b1[k].secondWindowTimestamps) \subseteq Range(b0[k].secondWindowTimestamps)
          /\ Range(b1[k].minuteWindowTimestamps) \subseteq Range(b0[k].minuteWindowTimestamps)
          /\ Range(b1[k].dayWindowTimestamps) \subseteq Range(b0[k].dayWindowTimestamps)
          /\ b1[k].monthRequestCount <= b0[k].monthRequestCount
          /\ b1[k].monthTokenCount <= b0[k].monthTokenCount
          /\ b1[k].minuteTokenCount <= b0[k].minuteTokenCount

\* C5 (no budget for failures): handling a rejection leaves the bucket of the
\* item's model as it was when execute() settled, and the bucket holds no
\* timestamp, request count or token count that it did not hold when
\* execute() was called.
C5_NoBudgetForFailures ==
    \A n \in 1..Len(done) :
       (~done[n].ok /\ Queued(n)) =>
          /\ done[n].after = done[n].pre
          /\ NothingAdded(done[n].before, done[n].after)

\* an item was rejected on a bucket that already counted a request
C5_Witness ==
    \E n \in 1..Len(done) :
       /\ ~done[n].ok /\ Queued(n)
       /\ \E k \in DOMAIN done[n].before : done[n].before[k].monthRequestCount >= 1

C9_MonthlyReset ==
    /\ \A n \in 1..Len(done) :
          (done[n].ok /\ Queued(n)) =>
             \A k \in DOMAIN done[n].pre :
                /\ done[n].at >= done[n].pre[k].monthRequestResetAt =>
                      /\ done[n].after[k].monthRequestCount = 1
                      /\ done[n].after[k].monthRequestResetAt > done[n].at
                /\ done[n].at >= done[n].pre[k].monthTokenResetAt =>
                      /\ done[n].after[k].monthTokenCount = done[n].tokens
                      /\ done[n].after[k].monthTokenResetAt > done[n].at
    /\ lastScan.at = now =>
          \A i \in 1..Len(lastScan.models) :
             ( /\ lastScan.idx = 0 \/ i <= lastScan.idx
               /\ getActiveLimits(opts, lastScan.models[i]) # << >> ) =>
                /\ usage[getKey(lastScan.models[i])].monthTokenResetAt > now
                /\ usage[getKey(lastScan.models[i])].monthRequestResetAt > now

\* C10 (token limits are not overshot): no bucket's minuteTokenCount exceeds
\* the TPm limit, and no bucket's monthTokenCount the TPM limit, that is
\* active for its model.
C10_TokenLimits ==
    \A k \in DOMAIN usage :
       \A l \in Range(getActiveLimits(opts, ModelOfKey(k))) :
          /\ l.type = "TPm" => usage[k].minuteTokenCount <= l.limit
          /\ l.type = "TPM" => usage[k].monthTokenCount <= l.limit

\* a minute token window is filled to its limit while an item that asks for
\* more tokens waits in the queue
C10_Witness ==
    \E k \in DOMAIN usage :
       /\ \E l \in Range(getActiveLimits(opts, ModelOfKey(k))) :
             l.type = "TPm" /\ usage[k].minuteTokenCount = l.limit
       /\ \E i \in 1..Len(queue) : getKey(queue[i].modelName) = k /\ queue[i].tokens > 0
       /\ \E j \in 1..Len(loops) : loops[j].pc = "sleep"

\* C11 (fast-path transparency): an add() for a model without active limits,
\* on a queuer without fallback delay, only starts execute(): the queue, the
\* isProcessing flag, the dispatch loop and every bucket of the usage store
\* stay as they are; any other add() enqueues its item; and the future of a
\* fast-path call settles with the very value execute() settled with.
C11_AddStep ==
    nextId' = nextId + 1 =>
       \E kind \in env.kinds :
          IF getActiveLimits(opts, kind.modelName) = << >> /\ opts.fallbackDelayMs = 0
          THEN /\ fast' = fast \cup {nextId}
               /\ UNCHANGED << queue, isProcessing, usage, loops, started >>
          ELSE /\ fast' = fast
               /\ \/ \E i \in 1..Len(queue') :
                        queue'[i] = [id |-> nextId, tokens |-> kind.tokens,
                                     modelName |-> kind.modelName]
                  \/ /\ Len(started') = Len(started) + 1
                     /\ started'[Len(started')].id = nextId
                     /\ started'[Len(started')].modelName = kind.modelName

MergedLimits(dl, ml) ==
    LET NotInDefaults(x) == \A i \in 1..Len(dl) : dl[i].type # x.type
        Override(d) ==
            IF \E j \in 1..Len(ml) : ml[j].type = d.type
            THEN ml[SetMin({ j \in 1..Len(ml) : ml[j].type = d.type })]
            ELSE d
    IN  [i \in 1..Len(dl) |-> Override(dl[i])] \o SelectSeq(ml, NotInDefaults)

\* C20 (active limits), as claimed: for every model name, getActiveLimits
\* returns the defaults merged with the model's own limits, and the defaults
\* for a model that has no limits of its own.
C20_ActiveLimits ==
    ret.op = "getActiveLimits" =>
       ret.value = IF ret.modelName \in DOMAIN opts.modelLimits
                   THEN MergedLimits(opts.defaultLimits, opts.modelLimits[ret.modelName])
                   ELSE opts.defaultLimits

\* the same for the model names that Object.prototype does not define
C20_OwnNames ==
    (ret.op = "getActiveLimits" /\ ret.modelName \notin InheritedFunctions) =>
       ret.value = IF ret.modelName \in DOMAIN opts.modelLimits
                   THEN MergedLimits(opts.defaultLimits, opts.modelLimits[ret.modelName])
                   ELSE opts.defaultLimits

\* C17: the limits of a set that trigger on bucket b at time t for a request
\* of the given tokens, and the wait each of them asks for
Triggers(l, b, t, tokens) ==
    CASE l.type = "RPS" -> Len(b.secondWindowTimestamps) >= l.limit
      [] l.type = "RPm" -> Len(b.minuteWindowTimestamps) >= l.limit
      [] l.type = "RPD" -> Len(b.dayWindowTimestamps) >= l.limit
      [] l.type = "TPM" -> b.monthTokenCount + Max2(0, tokens) > l.limit
      [] l.type = "RPM" -> b.monthRequestCount + 1 > l.limit
      [] l.type = "TPm" -> /\ b.minuteTokenCount + Max2(0, tokens) > l.limit
                           /\ t - b.minuteTokenWindowStart < MinuteWindowMs
      [] OTHER -> FALSE

\* the wait a limit asks for, as a set: empty where the window has no oldest
\* timestamp to measure an age from
CandidateWait(l, b, t) ==
    CASE l.type = "RPS" -> { SecondWindowMs - (t - b.secondWindowTimestamps[i]) :
                                i \in DOMAIN b.secondWindowTimestamps \cap {1} }
      [] l.type = "RPm" -> { MinuteWindowMs - (t - b.minuteWindowTimestamps[i]) :
                                i \in DOMAIN b.minuteWindowTimestamps \cap {1} }
      [] l.type = "RPD" -> { DayWindowMs - (t - b.dayWindowTimestamps[i]) :
                                i \in DOMAIN b.dayWindowTimestamps \cap {1} }
      [] l.type = "TPM" -> { b.monthTokenResetAt - t }
      [] l.type = "RPM" -> { b.monthRequestResetAt - t }
      [] l.type = "TPm" -> { b.minuteTokenWindowStart + MinuteWindowMs - t }
      [] OTHER -> {}

ClaimedWait(active, b, t, tokens) ==
    SetMax({0} \cup UNION { CandidateWait(active[i], b, t) :
                              i \in { j \in 1..Len(active) :
                                         Triggers(active[j], b, t, tokens) } })

\* C17 (admission wait value), as claimed: for every bucket, time, limit set
\* and token count computeWaitMs returns the largest wait of the limits that
\* trigger, at least 0, and 0 when none triggers.
C17_WaitValue ==
    (ret.op = "computeWaitMs" /\ ret.active # << >>) =>
       ret.value = ClaimedWait(ret.active, ret.bucket[getKey(ret.modelName)],
                               ret.at, ret.tokens)

\* the same for limit sets without a limit of 0
C17_PositiveLimits ==
    (/\ ret.op = "computeWaitMs" /\ ret.active # << >>
     /\ \A i \in 1..Len(ret.active) : ret.active[i].limit > 0) =>
       ret.value = ClaimedWait(ret.active, ret.bucket[getKey(ret.modelName)],
                               ret.at, ret.tokens)

C13_Monotone ==
    (ret.op = "estimateWaitMs" /\ ret.returns /\ ret.at = now) =>
       \A n \in 0..(Len(queue) - 1) :
          \A shorter \in {estimateWaitMs(opts, usage, SubSeq(queue, 1, n), now, env.tz,
                                         execEwma, ret.modelName, ret.tokens)} :
             shorter.returns => shorter.value <= ret.value

\* an estimate for a queue of two that is larger than the one for its first
\* item alone, which is larger than the one for the empty queue
C13_Witness ==
    /\ ret.op = "estimateWaitMs" /\ ret.returns /\ ret.at = now
    /\ Len(queue) = 2
    /\ \E s0 \in {estimateWaitMs(opts, usage, << >>, now, env.tz, execEwma,
                                  ret.modelName, ret.tokens)},
          s1 \in {estimateWaitMs(opts, usage, SubSeq(queue, 1, 1), now, env.tz,
                                  execEwma, ret.modelName, ret.tokens)} :
          /\ s0.returns /\ s1.returns
          /\ s0.value < s1.value /\ s1.value < ret.value

\* the queuers of a provider as the last request found them
QueuersOf(provider) ==
    IF provider \in DOMAIN routed.queues THEN routed.queues[provider] ELSE << >>

\* the candidates of the last request: target ti with queuer qi of its provider
Candidates ==
    { c \in (1..Len(routed.targets)) \X (1..MaxQueuers) :
         c[2] <= Len(QueuersOf(routed.targets[c[1]].provider)) }

\* the estimate queuer c[2] of target c[1] gave for the last request
EstimateOf(c) ==
    estimateWaitMs(QueuersOf(routed.targets[c[1]].provider)[c[2]].opts,
                   QueuersOf(routed.targets[c[1]].provider)[c[2]].usage,
                   QueuersOf(routed.targets[c[1]].provider)[c[2]].queue,
                   routed.at, env.tz,
                   QueuersOf(routed.targets[c[1]].provider)[c[2]].execEwma,
                   routed.targets[c[1]].model, routed.tokens).value

\* candidate c is seen before candidate d, or is d
SeenFirst(c, d) == c[1] < d[1] \/ (c[1] = d[1] /\ c[2] <= d[2])

\* the last request went to candidate c with the smallest estimate of all,
\* the first such, and to the client at the queuer's index
RoutedToFirstBest ==
    /\ routed.outcome = "sel"
    /\ \E c \in Candidates :
          /\ routed.targets[c[1]] = Target(routed.best.provider, routed.best.model)
          /\ c[2] = routed.best.idx
          /\ routed.best.client = routed.clients[routed.best.provider][c[2]]
          /\ \A d \in Candidates :
                \/ EstimateOf(c) < EstimateOf(d)
                \/ EstimateOf(c) = EstimateOf(d) /\ SeenFirst(c, d)

\* C14 (router selection), as claimed: a request with targets skips those
\* whose provider has no queuers and goes to the (provider, queuer, client)
\* of the smallest estimate among all others, the first seen on a tie.
C14_RouterSelection ==
    (routed.outcome # "none" /\ Candidates # {}) => RoutedToFirstBest

\* the same for requests none of whose targets names a provider after a
\* function of Object.prototype
C14_OwnProviders ==
    (/\ routed.outcome # "none" /\ Candidates # {}
     /\ \A i \in 1..Len(routed.targets) :
           routed.targets[i].provider \notin InheritedFunctions) => RoutedToFirstBest

\* C15: the last request had one target, whose provider has two queuers of
\* the same options: a, holding a pending item for the model, and b, whose
\* queue is empty
LoadedAndEmpty(a, b) ==
    /\ routed.outcome = "sel"
    /\ Len(routed.targets) = 1
    /\ Len(QueuersOf(routed.targets[1].provider)) = 2
    /\ {a, b} = {1, 2}
    /\ QueuersOf(routed.targets[1].provider)[a].opts
          = QueuersOf(routed.targets[1].provider)[b].opts
    /\ \E i \in 1..Len(QueuersOf(routed.targets[1].provider)[a].queue) :
          QueuersOf(routed.targets[1].provider)[a].queue[i].modelName
             = routed.targets[1].model
    /\ QueuersOf(routed.targets[1].provider)[b].queue = << >>

C16_NoAvailableProvider ==
    [][(routed' # routed /\ routed'.outcome # "none"
        /\ \A i \in 1..Len(routed'.targets) :
              \/ routed'.targets[i].provider \notin DOMAIN queuesByProvider
              \/ queuesByProvider[routed'.targets[i].provider] = << >>)
       => (routed'.outcome = "threw" /\ queuesByProvider' = queuesByProvider)]_vars

\* a request for a provider without queuers failed while another provider's
\* queuer was at work
C16_Witness ==
    /\ routed.outcome = "threw"
    /\ routed.targets = << Target("gemini", "m") >>
    /\ routed.best.message = "No available provider queues. Service not initialized"
    /\ \E p \in DOMAIN queuesByProvider :
          \E i \in 1..Len(queuesByProvider[p]) : queuesByProvider[p][i].isProcessing

WindowLength(ty) ==
    CASE ty = "RPS" -> SecondWindowMs
      [] ty = "RPm" -> MinuteWindowMs
      [] ty = "RPD" -> DayWindowMs

\* every timestamp of the three sliding sequences of b is younger at t than
\* its window is long
Fresh(b, t) ==
    \A ty \in {"RPS", "RPm", "RPD"} :
       \A i \in DOMAIN WindowOf(b, ty) : t - WindowOf(b, ty)[i] < WindowLength(ty)

\* the positions of the queue the last scan ran computeWaitMs for: up to the
\* item it picked, or all of them
CheckedByScan ==
    1..(IF lastScan.idx = 0 THEN Len(lastScan.ids) ELSE lastScan.idx)

\* C19 (pruning is monotone), as claimed: for any configuration, once
\* computeWaitMs(now, model) has returned, every timestamp kept in the model's
\* second, minute and day sequences is younger than the window's length.
C19_PruningMonotone ==
    lastScan.at = now =>
       \A i \in CheckedByScan :
          getKey(lastScan.models[i]) \in DOMAIN usage =>
             Fresh(usage[getKey(lastScan.models[i])], now)

\* the same for the models that have an active limit
C19_WithActiveLimits ==
    lastScan.at = now =>
       \A i \in CheckedByScan :
          (/\ getActiveLimits(opts, lastScan.models[i]) # << >>
           /\ getKey(lastScan.models[i]) \in DOMAIN usage) =>
             Fresh(usage[getKey(lastScan.models[i])], now)

IsTokenLimit(l) == l.type \in {"TPm", "TPM"}

\* the limits of an array that are not token-based
WithoutTokenLimits(active) ==
    LET Other(l) == ~IsTokenLimit(l) IN SelectSeq(active, Other)

\* C18 (0 tokens and token limits), as claimed: for every limit value an
\* admission check for 0 tokens returns what its limits other than TPm and
\* TPM alone ask for.
C18_ZeroTokensAnyLimit ==
    (ret.op = "computeWaitMs" /\ ret.tokens = 0 /\ ret.active # << >>) =>
       ret.value = computeWaitMs(ret.at, WithoutTokenLimits(ret.active),
                                 ret.bucket[getKey(ret.modelName)], 0)

\* C18, amended: with token limits that are not negative, on a bucket filled
\* from empty by this queuer's admitted records, an admission check for 0
\* tokens returns what its limits other than TPm and TPM alone ask for.
C18_ZeroTokens ==
    (/\ ret.op = "computeWaitMs" /\ ret.tokens = 0 /\ ret.active # << >>
     /\ \A i \in 1..Len(ret.active) :
           IsTokenLimit(ret.active[i]) => ret.active[i].limit >= 0) =>
       ret.value = computeWaitMs(ret.at, WithoutTokenLimits(ret.active),
                                 ret.bucket[getKey(ret.modelName)], 0)

\* a check for 0 tokens returned 0 on a bucket whose minute and month token
\* counts have reached limits of 2, which would hold up a single token
C18_Witness ==
    /\ ret.op = "computeWaitMs" /\ ret.tokens = 0 /\ ret.value = 0
    /\ ret.active = << L("TPM", 2), L("TPm", 2) >>
    /\ \A i \in 1..2 :
          limitWait(ret.active[i], ret.bucket[getKey(ret.modelName)], ret.at, 1) > 0

\* the ok records of the queued items of bucket key k
OkRecords(k) ==
    { n \in 1..Len(done) : done[n].ok /\ Queued(n) /\ getKey(done[n].modelName) = k }

RECURSIVE TokensOf(_)
TokensOf(S) ==
    IF S = {} THEN 0
    ELSE LET n == CHOOSE x \in S : TRUE IN done[n].tokens + TokensOf(S \ {n})

\* every timestamp and every count of a bucket comes from a call that resolved
BudgetFromSuccesses ==
    \A k \in DOMAIN usage :
       /\ Range(usage[k].dayWindowTimestamps) \subseteq { done[n].at : n \in OkRecords(k) }
       /\ usage[k].monthRequestCount <= Cardinality(OkRecords(k))
       /\ usage[k].monthTokenCount <= TokensOf(OkRecords(k))
       /\ usage[k].minuteTokenCount <= TokensOf(OkRecords(k))

SomeRejected == \E n \in 1..Len(done) : ~done[n].ok /\ Queued(n)
InQueue(id) == \E i \in 1..Len(queue) : queue[i].id = id
Settled(id) == \E n \in 1..Len(done) : done[n].id = id

\* C7 (failed items never poison the queue): every item that is pending once
\* an item has been rejected is still dispatched, and no bucket ever holds a
\* timestamp or a count of a rejected call, so no later item waits for one.
C7_NoPoison ==
    /\ [] BudgetFromSuccesses
    /\ \A id \in 1..MaxAdds : (SomeRejected /\ InQueue(id)) ~> (StartPos(id) # 0)

\* an item was rejected and another item, dispatched after it, was handed to
\* execute() at or after the time of that rejection
C7_Witness ==
    \E n \in 1..Len(done) : \E m \in 1..Len(started) :
       /\ ~done[n].ok /\ Queued(n)
       /\ started[m].id < nextId /\ started[m].id # done[n].id
       /\ StartPos(done[n].id) < m
       /\ started[m].at >= done[n].at

\* C8 (eventual dispatch): every accepted add() is eventually settled, a
\* queued item after it was taken from the queue and executed.
C8_EventualDispatch ==
    \A id \in 1..MaxAdds : (nextId > id) ~> (Settled(id) /\ ~InQueue(id))

\* every request offered was settled, one of them after it had to wait for a
\* window to clear
C8_Witness ==
    /\ Len(done) = MaxAdds
    /\ \E m \in 1..Len(started) : started[m].at >= env.t0 + SecondWindowMs

----------------------------------------------------------------------------
(* The anchor of the monthly counters *)

\* the first instant of the UTC calendar month that follows the time t
NextUTCMonth(t) == ((t \div MonthMs) + 1) * MonthMs

\* the buckets whose reset-at f is set by the step: created, or f changed
SetsResetAt(k, f) ==
    /\ k \in DOMAIN usage'
    /\ k \notin DOMAIN usage \/ usage'[k][f] # usage[k][f]

\* C21 (monthly reset anchor), as claimed: whenever a bucket is created or a
\* monthly reset sets monthTokenResetAt or monthRequestResetAt, the value is
\* the first instant of the next UTC month, whatever the time zone of the
\* process, and so it is not earlier than the current time.
C21_ResetAnchor ==
    [][\A k \in DOMAIN usage' :
          \A f \in {"monthTokenResetAt", "monthRequestResetAt"} :
             SetsResetAt(k, f) =>
                /\ usage'[k][f] = NextUTCMonth(now)
                /\ usage'[k][f] >= now]_vars

\* C21 in a process whose local time zone is UTC (checked under SpecUTC)
C21_ResetAnchorInUTC ==
    [][\A k \in DOMAIN usage' :
          \A f \in {"monthTokenResetAt", "monthRequestResetAt"} :
             SetsResetAt(k, f) => usage'[k][f] = NextUTCMonth(now)]_vars

----------------------------------------------------------------------------
(* The fallback delay *)

\* C30 (delay between executions), as claimed: in a queuer with a fallback
\* delay d, any two consecutive executions start at least d ms apart,
\* whenever their requests were added.
C30_DelayBetweenExecutions ==
    opts.fallbackDelayMs # 0 =>
       \A n \in 1..(Len(started) - 1) :
          started[n + 1].at - started[n].at >= opts.fallbackDelayMs

\* C30 for an item the loop finds queued when the item before it settles: a
\* dispatch made by a loop that was already running comes at least d ms
\* after the previous execution settled.
C30_DelayWhileQueued ==
    [][( /\ opts.fallbackDelayMs # 0
         /\ Len(started') > Len(started)
         /\ loops # << >> ) =>
            /\ done # << >>
            /\ now >= done[Len(done)].at + opts.fallbackDelayMs]_vars

\* two executions less than d apart, the first of which took time
C30_Witness ==
    /\ opts.fallbackDelayMs # 0
    /\ \E n \in 1..(Len(started) - 1) :
          /\ started[n + 1].at - started[n].at < opts.fallbackDelayMs
          /\ started[n + 1].at > started[n].at

----------------------------------------------------------------------------
(* Hot reload *)

\* the items of a queuer: queued, or handed to execute() and not yet settled
ItemsOf(qr) ==
    Range(qr.queue) \cup (IF qr.local.pc = "exec" THEN {qr.local.item} ELSE {})

\* the calls a queuer has pending: its items and its fast-path calls
LoadOf(qr) == Cardinality(ItemsOf(qr)) + qr.fast

ReplacedClients == { replaced[k].client : k \in 1..Len(replaced) }

\* the queuer that is or was paired with client c
QueuerOf(c) ==
    IF c \in ReplacedClients
    THEN replaced[CHOOSE k \in 1..Len(replaced) : replaced[k].client = c].queue
    ELSE Only({ queuesByProvider[c.provider][i] :
                   i \in { j \in 1..Len(clientsByProvider[c.provider]) :
                              clientsByProvider[c.provider][j] = c } })

\* every item of a replaced queuer is called on the client the queuer was
\* paired with, and a replaced queuer that has items queued has its
\* dispatch loop running
OldItemsKeepTheirClient ==
    \A k \in 1..Len(replaced) :
       /\ \A it \in ItemsOf(replaced[k].queue) : calledClient(it) = replaced[k].client
       /\ replaced[k].queue.queue # << >> =>
             /\ replaced[k].queue.isProcessing
             /\ replaced[k].queue.local.pc \in {"exec", "sleep", "delay"}

\* no step adds a call to a replaced queuer: its load after the step is at
\* most what it was before, replaced then or not
NoArrivalOnReplaced ==
    \A k \in 1..Len(replaced') :
       /\ replaced'[k].client \in ClientsAlive
       /\ LoadOf(replaced'[k].queue) <= LoadOf(QueuerOf(replaced'[k].client))

\* C22 (hot reload hand-over): the items pending or in flight on a queuer
\* when a reload replaces it are still dispatched by its loop and called on
\* its old client, and no request routed after the reload is enqueued on a
\* replaced queuer.
C22_HandOver ==
    /\ []OldItemsKeepTheirClient
    /\ [][NoArrivalOnReplaced]_vars
    /\ \A k \in 1..MaxReloads :
          (k <= Len(replaced) /\ ItemsOf(replaced[k].queue) # {})
             ~> (k <= Len(replaced) /\ ItemsOf(replaced[k].queue) = {})

\* a replaced queuer still has an item while a queuer of the new set has
\* taken a request
C22_Witness ==
    /\ \E k \in 1..Len(replaced) : ItemsOf(replaced[k].queue) # {}
    /\ \E p \in DOMAIN queuesByProvider : \E i \in 1..Len(queuesByProvider[p]) :
          /\ clientsByProvider[p][i].gen > 0
          /\ LoadOf(queuesByProvider[p][i]) > 0

\* the calls that dispatch loops have in flight with the API key
CallsInFlight(key) ==
    { at \in Places : /\ QueuerAt(at).local.pc = "exec"
                      /\ calledClient(QueuerAt(at).local.item).key = key }

KeysInUse == { c.key : c \in ClientsAlive }

\* C23 (one in-flight call per key across reload), as claimed: the dispatch
\* loops never have two calls in flight with the same API key, replaced
\* queuers that are still draining included.
C23_OneCallPerKey ==
    \A key \in KeysInUse : Cardinality(CallsInFlight(key)) <= 1

\* C23 for the queuers of the current set only
C23_OneCallPerKeyInUse ==
    \A key \in KeysInUse :
       Cardinality({ at \in CallsInFlight(key) : ~at.old }) <= 1

\* C24 (reload disposes the replaced queuers), as claimed: the store of
\* every replaced queuer is disposed and its flush timer is stopped.
C24_ReloadDisposes ==
    \A k \in 1..Len(replaced) :
       replaced[k].queue.store.kind = "pocketbase" =>
          /\ replaced[k].queue.store.disposed
          /\ ~replaced[k].queue.store.timer

\* C24, its consequence: the timer of a replaced queuer's store makes no
\* further call of persist()
C24_NoFlushAfterReload ==
    [][\A k \in 1..Len(replaced) :
          replaced[k].queue.store.kind = "pocketbase" =>
             replaced'[k].queue.store.flushes = replaced[k].queue.store.flushes]_vars

----------------------------------------------------------------------------
(* The remote usage store *)

StoreAt(at) == QueuerAt(at).store

PocketbasePlaces == { at \in Places : StoreAt(at).kind = "pocketbase" }

InChanged(st, key) == \E n \in 1..Len(st.changed) : st.changed[n] = key

\* a call of persist() of the queuer is writing, or is about to write, the
\* bucket that is now under key
BeingWritten(qr, key) ==
    \E n \in 1..Len(qr.store.persists) :
       /\ qr.store.persists[n].pc \in {"patch", "create"}
       /\ \/ key \in Range(Tail(qr.store.persists[n].keys))
          \/ /\ Head(qr.store.persists[n].keys) = key
             /\ qr.store.persists[n].body = qr.usage[plainKey(qr.store.label, key)]

\* the step is recordUsage for model key mk of the queuer at a place
Recorded(at, mk) ==
    /\ QueuerAt(at).local.pc = "exec"
    /\ StoreAt(at)'.boot = StoreAt(at).boot
    /\ mk \in DOMAIN QueuerAt(at)'.usage
    /\ QueuerAt(at)'.usage[mk].monthRequestCount =
          QueuerAt(at).usage[mk].monthRequestCount + 1

\* C25 (remote store marks usage dirty), as claimed: after a step that
\* records a successful dispatch for a model, the bucket's key is in changed
\* or a call of persist() is writing the updated bucket.
C25_DispatchMarksDirty ==
    [][\A at \in PocketbasePlaces : \A mk \in DOMAIN QueuerAt(at).usage :
          Recorded(at, mk) =>
             \/ InChanged(StoreAt(at)', makeKey(StoreAt(at).label, mk))
             \/ BeingWritten(QueuerAt(at)', makeKey(StoreAt(at).label, mk))]_vars

\* the key that call n of persist() of the store at a place is writing
KeyInWriting(at, n) == Head(StoreAt(at).persists[n].keys)

\* C26 (persistence failure keeps the bucket dirty), as claimed: when the
\* create request of a dirty bucket is answered with an error status or
\* throws, or its update request throws, the key is in changed afterwards.
C26_FailureKeepsDirty ==
    [][\A at \in PocketbasePlaces : \A n \in 1..Len(StoreAt(at).persists) :
          (\/ \E fault \in {"status", "throws"} : PersistCreateDone(at, n, fault)
           \/ PersistPatchDone(at, n, "throws"))
             => InChanged(StoreAt(at)', KeyInWriting(at, n))]_vars

\* C27 (re-authentication after token expiry), as claimed: a call of
\* persist() that starts after a request of the store was refused for its
\* token does not send its writes with the refused token.
C27_ReauthAfterExpiry ==
    [][\A at \in PocketbasePlaces :
          (/\ StoreAt(at).refused # 0
           /\ Len(StoreAt(at)'.persists) > Len(StoreAt(at).persists))
             => StoreAt(at)'.persists[Len(StoreAt(at)'.persists)].token
                   # StoreAt(at).refused]_vars

\* the requests counted in the records of the collection under key that the
\* store did not write itself, from record n on
RECURSIVE PersistedCount(_, _, _)
PersistedCount(st, key, n) ==
    IF n > Len(pb.records) THEN 0
    ELSE (IF pb.records[n].key = key /\ n \notin Range(st.recordIds)
          THEN pb.records[n].data.monthRequestCount ELSE 0)
         + PersistedCount(st, key, n + 1)

\* the step is the list request of bootstrap() being answered with the
\* records
BootstrapLoads(at) ==
    /\ StoreAt(at).boot = "list"
    /\ StoreAt(at)'.boot = "done"
    /\ StoreAt(at).auth = pb.epoch
    /\ pb' = pb

\* C28 (bootstrap resumes accurate history), as claimed: when bootstrap
\* completes, the bucket of a model the process already has a bucket of
\* holds the persisted requests together with those the process recorded.
C28_BootstrapKeepsRecords ==
    [][\A at \in PocketbasePlaces : \A mk \in DOMAIN QueuerAt(at).usage :
          BootstrapLoads(at) =>
             QueuerAt(at)'.usage[mk].monthRequestCount =
                QueuerAt(at).usage[mk].monthRequestCount
                + PersistedCount(StoreAt(at), makeKey(StoreAt(at).label, mk), 1)]_vars

\* the client paired with the queuer at a place
ClientAt(at) ==
    IF at.old THEN replaced[at.k].client ELSE clientsByProvider[at.p][at.i]

\* C29 (no collisions in a shared collection), as claimed: no record of the
\* collection is loaded or written by the stores of two queuers built for
\* different API keys.
C29_NoSharedRecord ==
    \A a \in PocketbasePlaces, b \in PocketbasePlaces :
       ClientAt(a).key # ClientAt(b).key =>
          Range(StoreAt(a).recordIds) \cap Range(StoreAt(b).recordIds) = {}

----------------------------------------------------------------------------
(* Order of processing *)

IdsOf(q) == [i \in 1..Len(q) |-> q[i].id]

----------------------------------------------------------------------------
(* Balancing over the keys of a provider *)

\* the queuers of the provider the last request went to, as it found them
ChosenQueuers == QueuersOf(routed.best.provider)

\* the estimate queuer i of that provider gave for the request
ChosenEstimate(i) ==
    estimateWaitMs(ChosenQueuers[i].opts, ChosenQueuers[i].usage,
                   ChosenQueuers[i].queue, routed.at, env.tz,
                   ChosenQueuers[i].execEwma, routed.best.model, routed.tokens).value

----------------------------------------------------------------------------
(* The dispatch loop and its flag *)

\* C33 (at most one dispatch loop): at most one invocation of processQueue
\* is running, isProcessing is true exactly while one is, and an add() made
\* while one is running neither scans nor dispatches: it leaves the loop,
\* the usage and the history of scans and dispatches as they are.
C33_OneLoop ==
    /\ [](Len(loops) <= 1 /\ (isProcessing <=> loops # << >>))
    /\ [][(nextId' > nextId /\ isProcessing) =>
             /\ loops' = loops
             /\ isProcessing'
             /\ lastScan' = lastScan
             /\ started' = started
             /\ usage' = usage
             /\ queue' \in {queue} \cup { Append(queue, it) : it \in {[id |-> nextId,
                                tokens |-> k.tokens, modelName |-> k.modelName] :
                                k \in env.kinds} }]_vars

\* two items were added while the loop slept, and are queued behind its timer
C33_Witness ==
    /\ Len(loops) = 1
    /\ loops[1].pc = "sleep"
    /\ Len(queue) >= 2
    /\ isProcessing

----------------------------------------------------------------------------
(* The estimator's admission check *)

\* C34 (the estimator replays the dispatcher): for every bucket, time t,
\* model and token count computeWaitSim returns the wait computeWaitMs
\* returns on a copy of the bucket at t.
C34_SameWait ==
    ret.op = "computeWaitSim" => ret.sim = ret.live

\* what the estimator takes for runnable at t the dispatcher would dispatch
C34_RunnableAlike ==
    (ret.op = "computeWaitSim" /\ Runnable(ret.sim)) => Runnable(ret.live)

\* a request that every limit of its model can admit on an empty bucket:
\* the limits are at least 1 and the token limits at least the request
Admissible(active, tokens) ==
    \A i \in 1..Len(active) :
       /\ active[i].limit >= 1
       /\ active[i].type \in {"TPm", "TPM"} => active[i].limit >= tokens

\* the two checks agree on every admissible request
C34_SameWaitWhenAdmissible ==
    (ret.op = "computeWaitSim" /\ Admissible(ret.active, ret.tokens))
        => ret.sim = ret.live

\* the minute of the token window is over at t and the request is larger
\* than the TPm limit: the estimator lets it run, the dispatcher never does
C34_Divergence ==
    /\ ret.op = "computeWaitSim"
    /\ ret.t - ret.bucket.minuteTokenWindowStart >= MinuteWindowMs
    /\ Runnable(ret.sim)
    /\ ~Runnable(ret.live)

\* an admissible request checked after a month's end and past the minute,
\* with a positive wait
C34_AdmissibleSeen ==
    /\ ret.op = "computeWaitSim"
    /\ Admissible(ret.active, ret.tokens)
    /\ ret.sim # NaN
    /\ ret.sim > 0

----------------------------------------------------------------------------
(* The idle sleep *)

\* the loop is at its idle sleep: no execute() is awaited and no fallback
\* delay is pending
Idle == Len(loops) = 1 /\ loops[1].pc = "sleep"

\* some queued item would pass its admission check now
SomeRunnable ==
    \E i \in 1..Len(queue) :
       Runnable(WaitsSeen(queue, usage, opts, now, env.tz)[i])

\* the smallest wait in waits, not-a-number left aside; Infinity if none
SmallestWait(waits) ==
    IF \A i \in 1..Len(waits) : waits[i] = NaN THEN PosInfinity
    ELSE SetMin({ waits[i] : i \in { j \in 1..Len(waits) : waits[j] # NaN } })

\* C35 (bounded idle delay): the idle sleep is the smallest wait of the
\* scan clamped to 1..5000 ms, so its timer is due at most 5000 ms from
\* now; while the loop sleeps and a queued item has wait 0 (one that was
\* added during the sleep included) the timer stays set and some item stays
\* runnable until the step that starts an item, and that step comes.
C35_BoundedIdleDelay ==
    /\ [](Idle =>
            /\ loops[1].wakeAt
                   = lastScan.at + Max2(1, Min2(SmallestWait(lastScan.waits), 5000))
            /\ lastScan.at <= now
            /\ loops[1].wakeAt - now <= 5000)
    /\ [][(Idle /\ SomeRunnable) =>
             \/ /\ Len(started') = Len(started) + 1
                /\ now >= loops[1].wakeAt
                /\ started'[Len(started')].at = now
             \/ /\ Idle'
                /\ SomeRunnable'
                /\ loops'[1].wakeAt = loops[1].wakeAt
                /\ started' = started]_vars
    /\ \A n \in 0..MaxAdds :
          (Idle /\ SomeRunnable /\ Len(started) = n) ~> (Len(started) > n)

\* the loop sleeps on a throttled head while an item added during the
\* sleep is runnable, the timer not yet due
C35_Witness ==
    /\ Idle
    /\ now < loops[1].wakeAt
    /\ lastScan.at < now
    /\ Len(queue) > Len(lastScan.ids)
    /\ ~Runnable(WaitsSeen(queue, usage, opts, now, env.tz)[1])
    /\ Runnable(WaitsSeen(queue, usage, opts, now, env.tz)[Len(queue)])

----------------------------------------------------------------------------
(* Wake-ups *)

\* C36 (no lost wake-up): while the queue holds an item a dispatch loop is
\* running (isProcessing is true and one invocation of processQueue is at
\* an await), and an add() that queues its item leaves a loop running.
C36_NoLostWakeUp ==
    /\ [](queue # << >> => (isProcessing /\ Len(loops) = 1))
    /\ [][(nextId' > nextId /\ fast' = fast) =>
             (isProcessing' /\ Len(loops') = 1)]_vars

\* a loop ended on an empty queue, and a later add() found no loop running:
\* its item is queued behind a throttled one with a loop asleep
C36_Witness ==
    /\ \E n \in 1..Len(done) : Queued(n)
    /\ Len(queue) >= 2
    /\ isProcessing
    /\ Len(loops) = 1
    /\ loops[1].pc = "sleep"
    /\ Len(started) = Len(done)

----------------------------------------------------------------------------
(* Termination of the estimator *)

SimulatedModels == { queue[i].modelName : i \in 1..Len(queue) } \cup {ret.modelName}

\* a call that never returns simulates a model with a request-window limit
\* (RPS, RPm or RPD) of 0 or below
C37_StuckOnlyBelowOne ==
    (ret.op = "estimateWaitMs" /\ ret.stuck) =>
        \E m \in SimulatedModels :
           \E i \in 1..Len(getActiveLimits(opts, m)) :
              /\ getActiveLimits(opts, m)[i].type \in {"RPS", "RPm", "RPD"}
              /\ getActiveLimits(opts, m)[i].limit <= 0

\* a call for a model limited to 0 requests per second, on an empty queue
C37_StuckSeen ==
    /\ ret.op = "estimateWaitMs"
    /\ ret.stuck
    /\ queue = << >>

----------------------------------------------------------------------------
(* The life of a queued item *)

StartedIds == { started[n].id : n \in 1..Len(started) }
ExecutingIds == { loops[k].item.id : k \in { j \in 1..Len(loops) : loops[j].pc = "exec" } }
SettledIds == { done[n].id : n \in { m \in 1..Len(done) : Queued(m) } }

\* C38 (each item runs once): an item whose execute() was called is no
\* longer in the queue, no item's execute() is called twice, no item's
\* future is settled twice, and a future is settled in the step in which
\* the awaited execute() of its item ends: every item that was started is
\* either being executed or settled, never both.
C38_RunsOnce ==
    /\ [](/\ \A m, n \in 1..Len(started) : started[m].id = started[n].id => m = n
          /\ \A m, n \in 1..Len(done) : done[m].id = done[n].id => m = n
          /\ \A i \in 1..Len(queue) : queue[i].id \notin StartedIds
          /\ \A i, j \in 1..Len(queue) : queue[i].id = queue[j].id => i = j
          /\ StartedIds = ExecutingIds \cup SettledIds
          /\ ExecutingIds \cap SettledIds = {})
    /\ [][Len(started') > Len(started) =>
             /\ started' = Append(started, started'[Len(started')])
             /\ started'[Len(started')].id
                    \in { queue[i].id : i \in 1..Len(queue) } \cup {nextId}
             /\ started'[Len(started')].id \in ExecutingIds'
             /\ started'[Len(started')].id
                    \notin { queue'[i].id : i \in 1..Len(queue') }]_vars
    /\ [][(Len(done') > Len(done) /\ ~done'[Len(done')].fastPath) =>
             /\ done' = Append(done, done'[Len(done')])
             /\ done'[Len(done')].id \in ExecutingIds
             /\ done'[Len(done')].id \notin ExecutingIds'
             /\ done'[Len(done')].at = now]_vars

\* three queued items were executed and settled, one of them rejected, one
\* dispatched ahead of an older item
C38_Witness ==
    /\ Cardinality(SettledIds) = 3
    /\ \E n \in 1..Len(done) : Queued(n) /\ ~done[n].ok
    /\ \E m, n \in 1..Len(started) : m < n /\ started[m].id > started[n].id

----------------------------------------------------------------------------
(* Records of the usage collection *)

\* C39 (one remote record per key), as claimed: the collection never holds
\* two records of one namespaced key.
C39_OneRecordPerKey ==
    \A m, n \in 1..Len(pb.records) :
       pb.records[m].key = pb.records[n].key => m = n

\* a create is in flight for a key of which the store knows a record: the
\* PATCH of that record was answered with an error status
C39_CreateAfterFailedPatch ==
    \E at \in PocketbasePlaces :
       \E n \in 1..Len(StoreAt(at).persists) :
          /\ StoreAt(at).persists[n].pc = "create"
          /\ Head(StoreAt(at).persists[n].keys) \in DOMAIN StoreAt(at).recordIds
          /\ \E r \in 1..Len(pb.records) :
                pb.records[r].key = Head(StoreAt(at).persists[n].keys)

----------------------------------------------------------------------------
(* Limits across a reload *)

\* the places of the queuers built for an API key, replaced ones included
PlacesOfKey(key) == { at \in Places : ClientAt(at).key = key }

\* the successful calls for the model of bucket mk that the queuers at the
\* places ats recorded less than the window of ty ago
RecentCalls(ats, mk, ty) ==
    UNION { { << at, i >> :
                 i \in { j \in DOMAIN WindowOf(QueuerAt(at).usage[mk], ty) :
                            now - WindowOf(QueuerAt(at).usage[mk], ty)[j]
                               < WindowLength(ty) } } :
               at \in { a \in ats : mk \in DOMAIN QueuerAt(a).usage } }

\* the sliding-window limits every queuer at the places ats has for mk
SharedLimits(ats, mk) ==
    { l \in UNION { Range(getActiveLimits(QueuerAt(at).opts, ModelOfKey(mk))) : at \in ats } :
         /\ l.type \in {"RPS", "RPm", "RPD"}
         /\ \A at \in ats : l \in Range(getActiveLimits(QueuerAt(at).opts, ModelOfKey(mk))) }

\* C40 (rate limits survive a reload), as claimed: the successful calls for
\* a model made with one API key within one window length, those of the
\* replaced queuers and of the new one together, never exceed a limit the
\* key has before and after the reload.
C40_LimitAcrossReload ==
    \A key \in KeysInUse :
       \A mk \in UNION { DOMAIN QueuerAt(at).usage : at \in PlacesOfKey(key) } :
          \A l \in SharedLimits(PlacesOfKey(key), mk) :
             Cardinality(RecentCalls(PlacesOfKey(key), mk, l.type)) <= l.limit

\* each queuer keeps the limit for the calls it made itself
C40_LimitPerQueuer ==
    \A at \in Places :
       \A mk \in DOMAIN QueuerAt(at).usage :
          \A l \in SharedLimits({at}, mk) :
             Cardinality(RecentCalls({at}, mk, l.type)) <= l.limit

\* a queuer and the one that replaced it both hold a call of the same
\* second for one key
C40_BothRecorded ==
    \E key \in KeysInUse :
       \E a, b \in PlacesOfKey(key) :
          /\ a.old /\ ~b.old
          /\ \E mk \in DOMAIN QueuerAt(a).usage \cap DOMAIN QueuerAt(b).usage :
                /\ RecentCalls({a}, mk, "RPS") # {}
                /\ RecentCalls({b}, mk, "RPS") # {}
                /\ SharedLimits({a, b}, mk) # {}

====
